---- MODULE Spec2Model ----
(***************************************************************************)
(* Model of overlit's DmTool (dmtool.go): the extent bitmap, the device    *)
(* catalogue, the JSON file written by Flush and read back by Setup, and   *)
(* the kernel device-mapper entries the tool drives through libdevmapper.  *)
(***************************************************************************)
EXTENDS Integers, Sequences, FiniteSets, TLC

\* ------------------------------------------------------------------------
\* Bounds of the model
\* ------------------------------------------------------------------------

\* Number of DmTool calls explored in one behaviour.
MaxOps == 6

\* Size of the backing device /dev/sdb, in 1024-byte units.
DevUnits == 5

\* Largest size a ResizeDevice call asks for, in 1024-byte units.
MaxSizeUnits == 3

\* Size of the large backing device /dev/sdd, in 1024-byte units: room for
\* two Targets of 255 extents.
BigUnits == 520

\* ------------------------------------------------------------------------
\* Inputs
\* ------------------------------------------------------------------------

Names == {"A", "B"}

DevPaths == {"/dev/sdb", "/dev/sdc"}

ExtentSizes == {1024, 2048}

\* whole multiples of the smaller extent size, and one size that is not
Sizes == {1024 * k : k \in 1..MaxSizeUnits} \cup {1536}

FsTypes == {"ext4"}

MntPaths == {"/mnt/a"}

\* Byte size the size ioctl reports for a backing device: /dev/sdb is the
\* device of DevUnits units, /dev/sdc a small one; /dev/none cannot be opened.
getDeviceSize(devpath) ==
    IF devpath = "/dev/sdb" THEN DevUnits * 1024
    ELSE IF devpath = "/dev/sdd" THEN BigUnits * 1024
    ELSE IF devpath = "/dev/none" THEN 0
    ELSE 2 * 1024

\* sizes asked of the large device, in extents of 1024 bytes: below, at and
\* above the 255 of one Target, up to two Targets
StepExtents == {2, 255, 256, 300, 510}

\* extents another Device holds from extent 0 before the call followed
Prefixes == {0, 3}

\* the bytes the 64-bit starts are drawn from, and the counts packed with them
PackBytes == {0, 255}

PackCounts == {1, 128, 255}

NoFile == [exists |-> FALSE]

\* ------------------------------------------------------------------------
\* Integer helpers
\* ------------------------------------------------------------------------

getMinUint64(a, b) == IF a > b THEN b ELSE a

getMaxUint64(a, b) == IF a > b THEN a ELSE b

SetMin(S) == CHOOSE x \in S : \A y \in S : x <= y

RECURSIVE BitOr(_, _)
BitOr(a, b) ==
    IF a = 0 THEN b
    ELSE IF b = 0 THEN a
    ELSE (IF (a % 2 = 1) \/ (b % 2 = 1) THEN 1 ELSE 0) + 2 * BitOr(a \div 2, b \div 2)

\* start<<8 | count (the shift cannot overflow 64 bits for the extent indices
\* of the model, which stay far below 2^56)
packTarget(start, count) == BitOr(start * 256, count)

getTarget(target) == [start |-> target \div 256, count |-> target % 256]

\* The same two expressions at the full width of uint64: a value is its eight
\* bytes, most significant first.
RECURSIVE BitAnd(_, _)
BitAnd(a, b) ==
    IF a = 0 \/ b = 0 THEN 0
    ELSE (IF (a % 2 = 1) /\ (b % 2 = 1) THEN 1 ELSE 0) + 2 * BitAnd(a \div 2, b \div 2)

\* uint64(n) for 0 <= n < 2^31
Uint64(n) ==
    <<0, 0, 0, 0, (n \div 16777216) % 256, (n \div 65536) % 256, (n \div 256) % 256, n % 256>>

\* x << 8: the most significant byte is shifted out
shl8(x) == <<x[2], x[3], x[4], x[5], x[6], x[7], x[8], 0>>

\* x >> 8
shr8(x) == <<0, x[1], x[2], x[3], x[4], x[5], x[6], x[7]>>

or64(x, y) == [i \in 1..8 |-> BitOr(x[i], y[i])]

\* x & 0x7f
lowSevenBits(x) == <<0, 0, 0, 0, 0, 0, 0, BitAnd(x[8], 127)>>

\* x & 0xff
lowByte(x) == <<0, 0, 0, 0, 0, 0, 0, BitAnd(x[8], 255)>>

\* start<<8 | count
packTarget64(start, count) == or64(shl8(start), count)

getTarget64(target) == [start |-> shr8(target), count |-> lowByte(target)]

\* ------------------------------------------------------------------------
\* The bit set (github.com/willf/bitset as DmTool uses it)
\* ------------------------------------------------------------------------

BitsetNew(n) == [length |-> n, bits |-> {}]

BitsetSet(b, i) ==
    [length |-> IF i >= b.length THEN i + 1 ELSE b.length,
     bits   |-> b.bits \cup {i}]

BitsetClear(b, i) ==
    IF i >= b.length THEN b ELSE [b EXCEPT !.bits = @ \ {i}]

\* NextClear that returns the highest clear bit instead of the lowest
NextClearHighest(b, i) ==
    LET clear == {j \in i..(b.length - 1) : j \notin b.bits}
    IN  IF clear = {} THEN [index |-> 0, found |-> FALSE]
        ELSE [index |-> CHOOSE j \in clear : \A m \in clear : m <= j, found |-> TRUE]

NextClear(b, i) ==
    LET clear == {j \in i..(b.length - 1) : j \notin b.bits}
    IN  IF clear = {} THEN [index |-> 0, found |-> FALSE]
        ELSE [index |-> SetMin(clear), found |-> TRUE]

\* ------------------------------------------------------------------------
\* Extent allocation
\* ------------------------------------------------------------------------

RECURSIVE findExtentsLoop(_, _, _, _, _, _)
findExtentsLoop(bits, start, count, want, offset, ncount) ==
    IF ~(count < want)
    THEN [bits |-> bits, start |-> start, count |-> count, ncount |-> ncount, offset |-> offset]
    ELSE LET nc == NextClear(bits, offset + 1)
         IN  IF ~nc.found
             THEN [bits |-> bits, start |-> start, count |-> count, ncount |-> ncount, offset |-> offset]
             ELSE IF count # 0 /\ nc.index # offset + 1
             THEN [bits |-> bits, start |-> start, count |-> count, ncount |-> ncount, offset |-> offset]
             ELSE findExtentsLoop(BitsetSet(bits, nc.index),
                                  IF count = 0 THEN nc.index - 1 ELSE start,
                                  count + 1, want, nc.index, ncount + 1)

findExtents(bits, start, count, want, offset) ==
    findExtentsLoop(bits, start, count, want, offset, 0)

RECURSIVE setExtentsLoop(_, _, _, _)
setExtentsLoop(bits, offset, count, i) ==
    IF ~(i < count) THEN bits
    ELSE setExtentsLoop(BitsetSet(bits, offset + i + 1), offset, count, i + 1)

setExtents(bits, offset, count) == setExtentsLoop(bits, offset, count, 0)

\* clearExtents without the plus-one of the bit index
RECURSIVE clearExtentsNoPlusOneLoop(_, _, _, _)
clearExtentsNoPlusOneLoop(bits, offset, count, i) ==
    IF ~(i < count) THEN bits
    ELSE clearExtentsNoPlusOneLoop(BitsetClear(bits, offset + i), offset, count, i + 1)

clearExtentsNoPlusOne(bits, offset, count) == clearExtentsNoPlusOneLoop(bits, offset, count, 0)

RECURSIVE clearExtentsLoop(_, _, _, _)
clearExtentsLoop(bits, offset, count, i) ==
    IF ~(i < count) THEN bits
    ELSE clearExtentsLoop(BitsetClear(bits, offset + i + 1), offset, count, i + 1)

clearExtents(bits, offset, count) == clearExtentsLoop(bits, offset, count, 0)


\* ------------------------------------------------------------------------
\* State
\* ------------------------------------------------------------------------

VARIABLES
    DevPath,      \* DmTool.DevPath
    ExtentSize,   \* DmTool.ExtentSize
    Devices,      \* DmTool.Devices: name -> DmDevice
    extentbits,   \* DmTool.extentbits
    extents,      \* DmTool.extents
    jsonfile,     \* content of the file at jsonpath
    kernel,       \* device-mapper entries in the kernel: name -> entry
    ready,        \* Setup has returned nil in this process
    ret,          \* the last DmTool call and what it returned
    allok,        \* no CreateDevice/ResizeDevice/DeleteDevice failed since a Setup without catalogue
    nops,         \* number of calls made
    tasks,        \* the device-mapper tasks the last call ran, in order
    call,         \* the ResizeDevice call in progress, when its steps are followed
    driver        \* the graph driver: its per-id locks and the requests it is serving

vars == <<DevPath, ExtentSize, Devices, extentbits, extents, jsonfile, kernel, ready, ret, allok, nops,
          tasks, call, driver>>

NoDevices == [n \in {} |-> 0]

\* no ResizeDevice call is in progress
NoCall == [pc |-> "idle"]

DmDevice == [Targets |-> <<>>, Extents |-> 0, FsType |-> "", MntPath |-> "",
             Readonly |-> FALSE, ExtentStart |-> 0, ExtentCount |-> 0]

\* what a call returned: err is "nil" on success, val is a getter's value
Ret(op, name, arg, err, val) == [op |-> op, name |-> name, arg |-> arg, err |-> err, val |-> val]

PutDevice(devs, name, device) ==
    [n \in (DOMAIN devs) \cup {name} |-> IF n = name THEN device ELSE devs[n]]

\* ------------------------------------------------------------------------
\* Device-mapper tasks (their effect on the kernel; DmTool ignores the
\* result of dmTaskRun)
\* ------------------------------------------------------------------------

NoEntry == [exists |-> FALSE, live |-> <<>>, inactive |-> <<>>, loaded |-> FALSE]

NoKernel == [n \in Names |-> NoEntry]

\* attachDevice whose Create task never reaches the kernel
attachDeviceNoCreate(k, devname) == k

attachDevice(k, devname) ==
    IF k[devname].exists THEN k
    ELSE [k EXCEPT ![devname] =
            [exists |-> TRUE,
             live |-> <<[start |-> 0, size |-> 1, ttype |-> "zero", params |-> <<>>]>>,
             inactive |-> <<>>, loaded |-> FALSE]]

detachDevice(k, devname) == [k EXCEPT ![devname] = NoEntry]

checkDevice(k, devname) == IF k[devname].exists THEN 1 ELSE 0

\* reloadDevice that never advances the logical offset
RECURSIVE reloadTableNoAdvance(_, _, _, _, _)
reloadTableNoAdvance(targets, i, offset, multis, devpath) ==
    IF i > Len(targets) THEN <<>>
    ELSE LET t == getTarget(targets[i])
         IN  <<[start |-> offset * multis, size |-> t.count * multis, ttype |-> "linear",
                params |-> <<devpath, t.start * multis>>]>>
             \o reloadTableNoAdvance(targets, i + 1, offset, multis, devpath)

RECURSIVE reloadTable(_, _, _, _, _)
reloadTable(targets, i, offset, multis, devpath) ==
    IF i > Len(targets) THEN <<>>
    ELSE LET t == getTarget(targets[i])
         IN  <<[start |-> offset * multis, size |-> t.count * multis, ttype |-> "linear",
                params |-> <<devpath, t.start * multis>>]>>
             \o reloadTable(targets, i + 1, offset + t.count, multis, devpath)

\* The kernel refuses a table load for an unknown name or with no targets.
reloadDevice(k, devname, device, devpath, extentsize) ==
    LET table == reloadTable(device.Targets, 1, 0, extentsize \div 512, devpath)
    IN  IF ~k[devname].exists \/ table = <<>> THEN k
        ELSE [k EXCEPT ![devname].inactive = table, ![devname].loaded = TRUE]

\* resumeDevice whose Resume task leaves the live table as it was
resumeDeviceNoSwap(k, devname) == k

resumeDevice(k, devname) ==
    IF k[devname].exists /\ k[devname].loaded
    THEN [k EXCEPT ![devname].live = k[devname].inactive,
                   ![devname].inactive = <<>>, ![devname].loaded = FALSE]
    ELSE k

\* The tasks as the calls above run them: cookie says that dmTaskSetCookie
\* gave the task a udev cookie, wait that dmUdevWait is called on that cookie
\* after dmTaskRun and before the method returns, ok is what dmTaskRun
\* reports.
Task(kind, devname, table, cookie, wait, ok) ==
    [kind |-> kind, name |-> devname, table |-> table, cookie |-> cookie, wait |-> wait,
     ok |-> ok]

attachTask(k, devname) ==
    Task("Create", devname, <<[start |-> 0, size |-> 1, ttype |-> "zero", params |-> <<>>]>>,
         TRUE, TRUE, ~k[devname].exists)

detachTask(k, devname) == Task("Remove", devname, <<>>, TRUE, TRUE, k[devname].exists)

checkTask(k, devname) == Task("Info", devname, <<>>, FALSE, FALSE, TRUE)

reloadTask(k, devname, device, devpath, extentsize) ==
    LET table == reloadTable(device.Targets, 1, 0, extentsize \div 512, devpath)
    IN  Task("Reload", devname, table, FALSE, FALSE, k[devname].exists /\ table # <<>>)

\* resumeDevice that returns without waiting for udev
resumeTaskNoWait(k, devname) == Task("Resume", devname, <<>>, TRUE, FALSE, k[devname].exists)

resumeTask(k, devname) == Task("Resume", devname, <<>>, TRUE, TRUE, k[devname].exists)

\* ------------------------------------------------------------------------
\* JSON catalogue
\* ------------------------------------------------------------------------

\* json.Marshal that also writes how many calls the process has made
MarshalStamped(devpath, extentsize, devices) ==
    [exists |-> TRUE, devpath |-> devpath, extentsize |-> extentsize, stamp |-> nops,
     devices |-> [n \in DOMAIN devices |->
                    [targets     |-> devices[n].Targets,
                     extents     |-> devices[n].Extents,
                     fstype      |-> devices[n].FsType,
                     mntpath     |-> devices[n].MntPath,
                     readonly    |-> devices[n].Readonly,
                     extentstart |-> devices[n].ExtentStart,
                     extentcount |-> devices[n].ExtentCount]]]

\* json.Marshal(d): the exported fields only
Marshal(devpath, extentsize, devices) ==
    [exists |-> TRUE, devpath |-> devpath, extentsize |-> extentsize,
     devices |-> [n \in DOMAIN devices |->
                    [targets     |-> devices[n].Targets,
                     extents     |-> devices[n].Extents,
                     fstype      |-> devices[n].FsType,
                     mntpath     |-> devices[n].MntPath,
                     readonly    |-> devices[n].Readonly,
                     extentstart |-> devices[n].ExtentStart,
                     extentcount |-> devices[n].ExtentCount]]]

\* a file that holds only a part of a catalogue (an empty file included)
Truncated == [exists |-> TRUE, truncated |-> TRUE]

\* json.Unmarshal accepts the content of the file
Parses(file) == file.exists /\ "devpath" \in DOMAIN file

\* json.Unmarshal(jsondata, &d): the Devices map it fills
Unmarshal(file) ==
    [n \in DOMAIN file.devices |->
        [Targets     |-> file.devices[n].targets,
         Extents     |-> file.devices[n].extents,
         FsType      |-> file.devices[n].fstype,
         MntPath     |-> file.devices[n].mntpath,
         Readonly    |-> file.devices[n].readonly,
         ExtentStart |-> file.devices[n].extentstart,
         ExtentCount |-> file.devices[n].extentcount]]


\* ------------------------------------------------------------------------
\* Setup
\* ------------------------------------------------------------------------

RECURSIVE replayTargets(_, _, _)
replayTargets(bits, targets, i) ==
    IF i > Len(targets) THEN bits
    ELSE LET t == getTarget(targets[i])
         IN  replayTargets(setExtents(bits, t.start, t.count), targets, i + 1)

\* a replay that caches the start/count of the first Target
replayDeviceFirstTarget(device) ==
    IF device.Targets = <<>> THEN device
    ELSE LET t == getTarget(device.Targets[1])
         IN  [device EXCEPT !.ExtentStart = t.start, !.ExtentCount = t.count]

\* the cached start/count a replayed Device ends with: those of its last Target
replayDevice(device) ==
    IF device.Targets = <<>> THEN device
    ELSE LET t == getTarget(device.Targets[Len(device.Targets)])
         IN  [device EXCEPT !.ExtentStart = t.start, !.ExtentCount = t.count]

RECURSIVE replayBits(_, _, _)
replayBits(bits, devices, todo) ==
    IF todo = {} THEN bits
    ELSE LET n == CHOOSE x \in todo : TRUE
         IN  replayBits(replayTargets(bits, devices[n].Targets, 1), devices, todo \ {n})

RECURSIVE replayKernel(_, _, _, _, _)
replayKernel(k, devices, todo, devpath, extentsize) ==
    IF todo = {} THEN k
    ELSE LET n  == CHOOSE x \in todo : TRUE
             k1 == IF checkDevice(k, n) = 0 THEN attachDevice(k, n) ELSE k
             k2 == reloadDevice(k1, n, devices[n], devpath, extentsize)
             k3 == resumeDevice(k2, n)
         IN  replayKernel(k3, devices, todo \ {n}, devpath, extentsize)

RECURSIVE replayTasks(_, _, _, _, _)
replayTasks(k, devices, todo, devpath, extentsize) ==
    IF todo = {} THEN <<>>
    ELSE LET n  == CHOOSE x \in todo : TRUE
             absent == checkDevice(k, n) = 0
             k1 == IF absent THEN attachDevice(k, n) ELSE k
             k2 == reloadDevice(k1, n, devices[n], devpath, extentsize)
             k3 == resumeDevice(k2, n)
         IN  <<checkTask(k, n)>>
             \o (IF absent THEN <<attachTask(k, n)>> ELSE <<>>)
             \o <<reloadTask(k1, n, devices[n], devpath, extentsize), resumeTask(k2, n)>>
             \o replayTasks(k3, devices, todo \ {n}, devpath, extentsize)

\* A process start: NewDmTool() followed by Setup(devpath, extentsize, jsonpath).
\* reboot says whether the machine restarted since the last process (the
\* kernel then holds no device-mapper entries).
Setup(devpath, extentsize, reboot) ==
    /\ nops < MaxOps
    /\ LET devsize == getDeviceSize(devpath)
           k0      == IF reboot THEN NoKernel ELSE kernel
           total   == devsize \div extentsize
           loaded  == IF Parses(jsonfile) THEN Unmarshal(jsonfile) ELSE NoDevices
           match   == Parses(jsonfile) /\ jsonfile.devpath = devpath
                                       /\ jsonfile.extentsize = extentsize
       IN  IF devsize = 0
           THEN /\ ready' = FALSE
                /\ DevPath' = ""
                /\ ExtentSize' = 0
                /\ Devices' = NoDevices
                /\ extentbits' = BitsetNew(0)
                /\ extents' = 0
                /\ kernel' = k0
                /\ tasks' = <<>>
                /\ ret' = Ret("Setup", devpath, extentsize, "extent device is not available", "")
           ELSE IF jsonfile.exists /\ ~Parses(jsonfile)
           THEN /\ ready' = FALSE
                /\ DevPath' = ""
                /\ ExtentSize' = 0
                /\ Devices' = NoDevices
                /\ extentbits' = BitsetNew(total)
                /\ extents' = total
                /\ kernel' = k0
                /\ tasks' = <<>>
                /\ ret' = Ret("Setup", devpath, extentsize, "could not parse json config", "")
           ELSE /\ ready' = TRUE
                /\ DevPath' = devpath
                /\ ExtentSize' = extentsize
                /\ extents' = total
                /\ Devices' = IF match THEN [n \in DOMAIN loaded |-> replayDevice(loaded[n])]
                              ELSE loaded
                /\ extentbits' = IF match THEN replayBits(BitsetNew(total), loaded, DOMAIN loaded)
                                 ELSE BitsetNew(total)
                /\ kernel' = IF match THEN replayKernel(k0, loaded, DOMAIN loaded, jsonfile.devpath, jsonfile.extentsize)
                             ELSE k0
                /\ tasks' = IF match THEN replayTasks(k0, loaded, DOMAIN loaded, jsonfile.devpath, jsonfile.extentsize)
                            ELSE <<>>
                /\ ret' = Ret("Setup", devpath, extentsize, "nil", "")
    /\ allok' = ~jsonfile.exists
    /\ nops' = nops + 1
    /\ UNCHANGED <<jsonfile, call>>

\* ------------------------------------------------------------------------
\* Flush
\* ------------------------------------------------------------------------

\* The file operations of Flush, in order, and "short" for a Write that
\* returns fewer bytes than it was given; "none" when all of them succeed.
FlushFaults == {"tempfile", "write", "short", "sync", "close", "rename"}

\* the temp file when the operation `fault` fails (or, for "none", just
\* before the rename)
flushTemp(data, fault) ==
    IF fault = "tempfile" THEN NoFile
    ELSE IF fault \in {"write", "short"} THEN Truncated
    ELSE data

\* Flush that renames the temp file after a short write too
flushCommitsAfterShortWrite(fault) == fault \in {"none", "short"}

\* the rename is reached and succeeds
flushCommits(fault) == fault = "none"

\* the file at jsonpath after Flush ran with this fault
flushFile(json, data, fault) ==
    IF flushCommits(fault) THEN flushTemp(data, fault) ELSE json

flushError(fault) ==
    CASE fault = "tempfile" -> "could not create temp file for json config"
      [] fault = "write"    -> "could not write json config to temp file"
      [] fault = "short"    -> "short write"
      [] fault = "sync"     -> "could not sync temp file"
      [] fault = "close"    -> "could not close temp file"
      [] fault = "rename"   -> "could not commit json config"
      [] OTHER              -> "nil"

Flush ==
    /\ ready
    /\ nops < MaxOps
    /\ jsonfile' = flushFile(jsonfile, Marshal(DevPath, ExtentSize, Devices), "none")
    /\ ret' = Ret("Flush", "", 0, "nil", "")
    /\ tasks' = <<>>
    /\ nops' = nops + 1
    /\ UNCHANGED <<DevPath, ExtentSize, Devices, extentbits, extents, kernel, ready, allok, call>>

\* Flush in which one file operation fails: the temp file is left behind
FlushFails(fault) ==
    /\ ready
    /\ nops < MaxOps
    /\ jsonfile' = flushFile(jsonfile, Marshal(DevPath, ExtentSize, Devices), fault)
    /\ ret' = Ret("Flush", "", 0, flushError(fault), "")
    /\ tasks' = <<>>
    /\ nops' = nops + 1
    /\ UNCHANGED <<DevPath, ExtentSize, Devices, extentbits, extents, kernel, ready, allok, call>>

\* Flush during which the process stops: just before the file operation
\* `step`, or ("none") after the rename and before Flush returns. Only a new
\* process (Setup) goes on from there.
FlushStops(step) ==
    /\ ready
    /\ nops < MaxOps
    /\ jsonfile' = flushFile(jsonfile, Marshal(DevPath, ExtentSize, Devices), step)
    /\ ready' = FALSE
    /\ ret' = Ret("Flush", "", 0, "stopped", "")
    /\ tasks' = <<>>
    /\ nops' = nops + 1
    /\ UNCHANGED <<DevPath, ExtentSize, Devices, extentbits, extents, kernel, allok, call>>

\* ------------------------------------------------------------------------
\* CreateDevice, DeleteDevice
\* ------------------------------------------------------------------------

CreateDevice(name) ==
    /\ ready
    /\ nops < MaxOps
    /\ Devices' = PutDevice(Devices, name, DmDevice)
    /\ kernel' = attachDevice(kernel, name)
    /\ tasks' = <<attachTask(kernel, name)>>
    /\ ret' = Ret("CreateDevice", name, 0, "nil", "")
    /\ nops' = nops + 1
    /\ UNCHANGED <<DevPath, ExtentSize, extentbits, extents, jsonfile, ready, allok, call>>

RECURSIVE clearTargets(_, _, _)
clearTargets(bits, targets, i) ==
    IF i > Len(targets) THEN bits
    ELSE LET t == getTarget(targets[i])
         IN  clearTargets(clearExtents(bits, t.start, t.count), targets, i + 1)

\* DeleteDevice without the catalogue lookup: an unknown name has no Targets
\* to clear and goes on to the Remove task
DeleteDeviceNoLookup(name) ==
    /\ ready
    /\ nops < MaxOps
    /\ extentbits' = IF name \in DOMAIN Devices
                     THEN clearTargets(extentbits, Devices[name].Targets, 1)
                     ELSE extentbits
    /\ kernel' = detachDevice(kernel, name)
    /\ tasks' = <<detachTask(kernel, name)>>
    /\ ret' = Ret("DeleteDevice", name, 0, "nil", "")
    /\ nops' = nops + 1
    /\ UNCHANGED <<DevPath, ExtentSize, Devices, extents, jsonfile, ready, allok, call>>

DeleteDevice(name) ==
    /\ ready
    /\ nops < MaxOps
    /\ IF name \in DOMAIN Devices
       THEN /\ extentbits' = clearTargets(extentbits, Devices[name].Targets, 1)
            /\ kernel' = detachDevice(kernel, name)
            /\ tasks' = <<detachTask(kernel, name)>>
            /\ ret' = Ret("DeleteDevice", name, 0, "nil", "")
            /\ allok' = allok
       ELSE /\ ret' = Ret("DeleteDevice", name, 0, "has no device", "")
            /\ allok' = FALSE
            /\ tasks' = <<>>
            /\ UNCHANGED <<extentbits, kernel>>
    /\ nops' = nops + 1
    /\ UNCHANGED <<DevPath, ExtentSize, Devices, extents, jsonfile, ready, call>>


\* ------------------------------------------------------------------------
\* ResizeDevice
\* ------------------------------------------------------------------------

\* getMaxUint64(uint64(math.Ceil(float64(size/d.ExtentSize))), 1): the division
\* is the integer one, so Ceil has nothing left to round
newExtents(size, extentsize) == getMaxUint64(size \div extentsize, 1)

\* ResizeDevice without the early return for a request of the current size
resizeIsNoopNever(want, current) == FALSE

\* extents == device.Extents: nothing to do
resizeIsNoop(want, current) == want = current

RECURSIVE resizeLoop(_, _, _, _, _, _)
resizeLoop(device, bits, remains, estart, ecount, eoffset) ==
    IF ~(remains > 0) THEN [err |-> "nil", device |-> device, bits |-> bits]
    ELSE LET r == findExtents(bits, estart, ecount, getMinUint64(remains, 255), eoffset)
         IN  IF r.ncount = 0
             THEN IF eoffset = 0
                  THEN [err |-> "could not resize device", device |-> device, bits |-> r.bits]
                  ELSE resizeLoop(device, r.bits, remains, estart, ecount, 0)
             ELSE LET t == packTarget(r.start, r.count)
                      targets == IF ecount > 0
                                 THEN [device.Targets EXCEPT ![Len(device.Targets)] = t]
                                 ELSE Append(device.Targets, t)
                      grown == [device EXCEPT !.Targets = targets,
                                              !.ExtentStart = r.start,
                                              !.ExtentCount = r.count]
                  IN  resizeLoop(grown, r.bits, remains - r.count, 0, 0, r.offset)

ResizeDevice(name, size) ==
    /\ ready
    /\ nops < MaxOps
    /\ IF name \in DOMAIN Devices
       THEN LET device == Devices[name]
                want   == newExtents(size, ExtentSize)
            IN  IF resizeIsNoop(want, device.Extents)
                THEN /\ ret' = Ret("ResizeDevice", name, size, "nil", "")
                     /\ allok' = allok
                     /\ tasks' = <<>>
                     /\ UNCHANGED <<Devices, extentbits, kernel>>
                ELSE IF want > device.Extents
                THEN LET r == resizeLoop(device, extentbits,
                                         device.ExtentCount + (want - device.Extents),
                                         device.ExtentStart, device.ExtentCount,
                                         device.ExtentStart + device.ExtentCount)
                     IN  IF r.err # "nil"
                         THEN /\ Devices' = [Devices EXCEPT ![name] = r.device]
                              /\ extentbits' = r.bits
                              /\ ret' = Ret("ResizeDevice", name, size, r.err, "")
                              /\ allok' = FALSE
                              /\ tasks' = <<>>
                              /\ UNCHANGED kernel
                         ELSE /\ Devices' = [Devices EXCEPT ![name] = [r.device EXCEPT !.Extents = want]]
                              /\ extentbits' = r.bits
                              /\ kernel' = resumeDevice(reloadDevice(kernel, name, r.device, DevPath, ExtentSize), name)
                              /\ tasks' = <<reloadTask(kernel, name, r.device, DevPath, ExtentSize),
                                            resumeTask(reloadDevice(kernel, name, r.device, DevPath, ExtentSize), name)>>
                              /\ ret' = Ret("ResizeDevice", name, size, "nil", "")
                              /\ allok' = allok
                ELSE /\ ret' = Ret("ResizeDevice", name, size, "has no device", "")
                     /\ allok' = FALSE
                     /\ tasks' = <<>>
                     /\ UNCHANGED <<Devices, extentbits, kernel>>
       ELSE /\ ret' = Ret("ResizeDevice", name, size, "has no device", "")
            /\ allok' = FALSE
            /\ tasks' = <<>>
            /\ UNCHANGED <<Devices, extentbits, kernel>>
    /\ nops' = nops + 1
    /\ UNCHANGED <<DevPath, ExtentSize, extents, jsonfile, ready, call>>

\* ------------------------------------------------------------------------
\* ResizeDevice, one statement at a time
\* ------------------------------------------------------------------------

\* ResizeDevice up to the allocation loop. bits0, targets0 and extents0 keep
\* what the call found, for the properties.
ResizeBegin(name, size) ==
    /\ ready
    /\ nops < MaxOps
    /\ call = NoCall
    /\ nops' = nops + 1
    /\ tasks' = <<>>
    /\ IF name \in DOMAIN Devices
       THEN LET device == Devices[name]
                want   == newExtents(size, ExtentSize)
            IN  IF resizeIsNoop(want, device.Extents)
                THEN /\ ret' = Ret("ResizeDevice", name, size, "nil", "")
                     /\ UNCHANGED <<call, allok>>
                ELSE IF want > device.Extents
                THEN /\ call' = [pc |-> "loop", name |-> name, size |-> size, extents |-> want,
                                 remains |-> device.ExtentCount + (want - device.Extents),
                                 estart |-> device.ExtentStart, ecount |-> device.ExtentCount,
                                 eoffset |-> device.ExtentStart + device.ExtentCount,
                                 start |-> 0, count |-> 0, want |-> 0, offset |-> 0, ncount |-> 0,
                                 bits0 |-> extentbits, targets0 |-> device.Targets,
                                 extents0 |-> device.Extents]
                     /\ UNCHANGED <<ret, allok>>
                ELSE /\ ret' = Ret("ResizeDevice", name, size, "has no device", "")
                     /\ allok' = FALSE
                     /\ UNCHANGED call
       ELSE /\ ret' = Ret("ResizeDevice", name, size, "has no device", "")
            /\ allok' = FALSE
            /\ UNCHANGED call
    /\ UNCHANGED <<DevPath, ExtentSize, Devices, extentbits, extents, jsonfile, kernel, ready>>

\* the call of findExtents without the cap of 255 extents
ResizeLoopNoCap ==
    /\ call.pc = "loop"
    /\ call.remains > 0
    /\ call' = [call EXCEPT !.pc = "find", !.start = call.estart, !.count = call.ecount,
                            !.want = call.remains,
                            !.offset = call.eoffset, !.ncount = 0]
    /\ UNCHANGED <<DevPath, ExtentSize, Devices, extentbits, extents, jsonfile, kernel, ready,
                   ret, allok, nops, tasks>>

\* for remains > 0: the call of findExtents
ResizeLoop ==
    /\ call.pc = "loop"
    /\ call.remains > 0
    /\ call' = [call EXCEPT !.pc = "find", !.start = call.estart, !.count = call.ecount,
                            !.want = getMinUint64(call.remains, 255),
                            !.offset = call.eoffset, !.ncount = 0]
    /\ UNCHANGED <<DevPath, ExtentSize, Devices, extentbits, extents, jsonfile, kernel, ready,
                   ret, allok, nops, tasks>>

\* the next clear bit continues the run that findExtents is collecting
FindContinues ==
    LET nc == NextClear(extentbits, call.offset + 1)
    IN  /\ call.count < call.want
        /\ nc.found
        /\ call.count = 0 \/ nc.index = call.offset + 1

\* one iteration of the loop of findExtents
FindStep ==
    /\ call.pc = "find"
    /\ FindContinues
    /\ LET nc == NextClear(extentbits, call.offset + 1)
       IN  /\ extentbits' = BitsetSet(extentbits, nc.index)
           /\ call' = [call EXCEPT !.start = IF call.count = 0 THEN nc.index - 1 ELSE call.start,
                                   !.offset = nc.index,
                                   !.count = call.count + 1,
                                   !.ncount = call.ncount + 1]
    /\ UNCHANGED <<DevPath, ExtentSize, Devices, extents, jsonfile, kernel, ready,
                   ret, allok, nops, tasks>>

\* ResizeDevice that goes round again when a pass from offset 0 found nothing
FindReturnWrapsAgain ==
    /\ call.pc = "find"
    /\ ~FindContinues
    /\ IF call.ncount = 0
       THEN /\ call' = [call EXCEPT !.pc = "loop", !.eoffset = 0]
            /\ UNCHANGED <<Devices, ret, allok>>
       ELSE LET device  == Devices[call.name]
                t       == packTarget(call.start, call.count)
                targets == IF call.ecount > 0
                           THEN [device.Targets EXCEPT ![Len(device.Targets)] = t]
                           ELSE Append(device.Targets, t)
            IN  /\ Devices' = [Devices EXCEPT ![call.name] =
                                  [device EXCEPT !.Targets = targets,
                                                 !.ExtentStart = call.start,
                                                 !.ExtentCount = call.count]]
                /\ call' = [call EXCEPT !.pc = "loop",
                                        !.remains = call.remains - call.count,
                                        !.eoffset = call.offset,
                                        !.estart = 0, !.ecount = 0]
                /\ UNCHANGED <<ret, allok>>
    /\ UNCHANGED <<DevPath, ExtentSize, extentbits, extents, jsonfile, kernel, ready, nops, tasks>>

\* findExtents returns and ResizeDevice takes its result
FindReturn ==
    /\ call.pc = "find"
    /\ ~FindContinues
    /\ IF call.ncount = 0
       THEN IF call.eoffset = 0
            THEN /\ ret' = Ret("ResizeDevice", call.name, call.size, "could not resize device", "")
                 /\ allok' = FALSE
                 /\ call' = NoCall
                 /\ UNCHANGED Devices
            ELSE /\ call' = [call EXCEPT !.pc = "loop", !.eoffset = 0]
                 /\ UNCHANGED <<Devices, ret, allok>>
       ELSE LET device  == Devices[call.name]
                t       == packTarget(call.start, call.count)
                targets == IF call.ecount > 0
                           THEN [device.Targets EXCEPT ![Len(device.Targets)] = t]
                           ELSE Append(device.Targets, t)
            IN  /\ Devices' = [Devices EXCEPT ![call.name] =
                                  [device EXCEPT !.Targets = targets,
                                                 !.ExtentStart = call.start,
                                                 !.ExtentCount = call.count]]
                /\ call' = [call EXCEPT !.pc = "loop",
                                        !.remains = call.remains - call.count,
                                        !.eoffset = call.offset,
                                        !.estart = 0, !.ecount = 0]
                /\ UNCHANGED <<ret, allok>>
    /\ UNCHANGED <<DevPath, ExtentSize, extentbits, extents, jsonfile, kernel, ready, nops, tasks>>

\* after the loop: reloadDevice that also stores the new Extents
ResizeReloadSetsExtents ==
    /\ call.pc = "loop"
    /\ ~(call.remains > 0)
    /\ kernel' = reloadDevice(kernel, call.name, Devices[call.name], DevPath, ExtentSize)
    /\ tasks' = <<reloadTask(kernel, call.name, Devices[call.name], DevPath, ExtentSize)>>
    /\ Devices' = [Devices EXCEPT ![call.name].Extents = call.extents]
    /\ call' = [call EXCEPT !.pc = "resume"]
    /\ UNCHANGED <<DevPath, ExtentSize, extentbits, extents, jsonfile, ready, ret, allok, nops>>

\* after the loop: d.reloadDevice(name, device), which returns nil
ResizeReload ==
    /\ call.pc = "loop"
    /\ ~(call.remains > 0)
    /\ kernel' = reloadDevice(kernel, call.name, Devices[call.name], DevPath, ExtentSize)
    /\ tasks' = <<reloadTask(kernel, call.name, Devices[call.name], DevPath, ExtentSize)>>
    /\ call' = [call EXCEPT !.pc = "resume"]
    /\ UNCHANGED <<DevPath, ExtentSize, Devices, extentbits, extents, jsonfile, ready,
                   ret, allok, nops>>

\* d.resumeDevice(name), which returns nil
ResizeResume ==
    /\ call.pc = "resume"
    /\ kernel' = resumeDevice(kernel, call.name)
    /\ tasks' = Append(tasks, resumeTask(kernel, call.name))
    /\ call' = [call EXCEPT !.pc = "extents"]
    /\ UNCHANGED <<DevPath, ExtentSize, Devices, extentbits, extents, jsonfile, ready,
                   ret, allok, nops>>

\* device.Extents = extents; return nil
ResizeFinish ==
    /\ call.pc = "extents"
    /\ Devices' = [Devices EXCEPT ![call.name].Extents = call.extents]
    /\ ret' = Ret("ResizeDevice", call.name, call.size, "nil", "")
    /\ call' = NoCall
    /\ UNCHANGED <<DevPath, ExtentSize, extentbits, extents, jsonfile, kernel, ready, allok,
                   nops, tasks>>

\* ------------------------------------------------------------------------
\* Packing a Target and taking it apart again, at 64 bits
\* ------------------------------------------------------------------------

\* start<<8 | count, as ResizeDevice stores it
PackStep ==
    /\ call.pc = "pack"
    /\ call' = [call EXCEPT !.pc = "packed", !.target = packTarget64(call.start, call.count)]
    /\ UNCHANGED <<DevPath, ExtentSize, Devices, extentbits, extents, jsonfile, kernel, ready,
                   ret, allok, nops, tasks>>

\* getTarget(target), as every reader of Targets calls it
UnpackStep ==
    /\ call.pc = "packed"
    /\ call' = [call EXCEPT !.pc = "unpacked", !.got = getTarget64(call.target)]
    /\ UNCHANGED <<DevPath, ExtentSize, Devices, extentbits, extents, jsonfile, kernel, ready,
                   ret, allok, nops, tasks>>

\* ------------------------------------------------------------------------
\* Catalogue lookups and per-device metadata
\* ------------------------------------------------------------------------

HasDevice(name) ==
    /\ ready
    /\ nops < MaxOps
    /\ ret' = Ret("HasDevice", name, 0, IF name \in DOMAIN Devices THEN "nil" ELSE "has no device", "")
    /\ tasks' = <<>>
    /\ nops' = nops + 1
    /\ UNCHANGED <<DevPath, ExtentSize, Devices, extentbits, extents, jsonfile, kernel, ready, allok, call>>

SetDeviceFsType(name, fstype) ==
    /\ ready
    /\ nops < MaxOps
    /\ IF name \in DOMAIN Devices
       THEN /\ Devices' = [Devices EXCEPT ![name].FsType = fstype]
            /\ ret' = Ret("SetDeviceFsType", name, fstype, "nil", "")
       ELSE /\ ret' = Ret("SetDeviceFsType", name, fstype, "has no device", "")
            /\ UNCHANGED Devices
    /\ tasks' = <<>>
    /\ nops' = nops + 1
    /\ UNCHANGED <<DevPath, ExtentSize, extentbits, extents, jsonfile, kernel, ready, allok, call>>

\* SetDeviceMntPath that resets the file system type as well
SetDeviceMntPathResetsFsType(name, mntpath) ==
    /\ ready
    /\ nops < MaxOps
    /\ IF name \in DOMAIN Devices
       THEN /\ Devices' = [Devices EXCEPT ![name].MntPath = mntpath, ![name].FsType = ""]
            /\ ret' = Ret("SetDeviceMntPath", name, mntpath, "nil", "")
       ELSE /\ ret' = Ret("SetDeviceMntPath", name, mntpath, "has no device", "")
            /\ UNCHANGED Devices
    /\ tasks' = <<>>
    /\ nops' = nops + 1
    /\ UNCHANGED <<DevPath, ExtentSize, extentbits, extents, jsonfile, kernel, ready, allok, call>>

SetDeviceMntPath(name, mntpath) ==
    /\ ready
    /\ nops < MaxOps
    /\ IF name \in DOMAIN Devices
       THEN /\ Devices' = [Devices EXCEPT ![name].MntPath = mntpath]
            /\ ret' = Ret("SetDeviceMntPath", name, mntpath, "nil", "")
       ELSE /\ ret' = Ret("SetDeviceMntPath", name, mntpath, "has no device", "")
            /\ UNCHANGED Devices
    /\ tasks' = <<>>
    /\ nops' = nops + 1
    /\ UNCHANGED <<DevPath, ExtentSize, extentbits, extents, jsonfile, kernel, ready, allok, call>>

SetDeviceReadonly(name, readonly) ==
    /\ ready
    /\ nops < MaxOps
    /\ IF name \in DOMAIN Devices
       THEN /\ Devices' = [Devices EXCEPT ![name].Readonly = readonly]
            /\ ret' = Ret("SetDeviceReadonly", name, readonly, "nil", "")
       ELSE /\ ret' = Ret("SetDeviceReadonly", name, readonly, "has no device", "")
            /\ UNCHANGED Devices
    /\ tasks' = <<>>
    /\ nops' = nops + 1
    /\ UNCHANGED <<DevPath, ExtentSize, extentbits, extents, jsonfile, kernel, ready, allok, call>>

GetDeviceFsType(name) ==
    /\ ready
    /\ nops < MaxOps
    /\ ret' = IF name \in DOMAIN Devices
              THEN Ret("GetDeviceFsType", name, 0, "nil", Devices[name].FsType)
              ELSE Ret("GetDeviceFsType", name, 0, "has no device", "")
    /\ tasks' = <<>>
    /\ nops' = nops + 1
    /\ UNCHANGED <<DevPath, ExtentSize, Devices, extentbits, extents, jsonfile, kernel, ready, allok, call>>

GetDeviceMntPath(name) ==
    /\ ready
    /\ nops < MaxOps
    /\ ret' = IF name \in DOMAIN Devices
              THEN Ret("GetDeviceMntPath", name, 0, "nil", Devices[name].MntPath)
              ELSE Ret("GetDeviceMntPath", name, 0, "has no device", "")
    /\ tasks' = <<>>
    /\ nops' = nops + 1
    /\ UNCHANGED <<DevPath, ExtentSize, Devices, extentbits, extents, jsonfile, kernel, ready, allok, call>>

GetDeviceReadonly(name) ==
    /\ ready
    /\ nops < MaxOps
    /\ ret' = IF name \in DOMAIN Devices
              THEN Ret("GetDeviceReadonly", name, 0, "nil", Devices[name].Readonly)
              ELSE Ret("GetDeviceReadonly", name, 0, "has no device", TRUE)
    /\ tasks' = <<>>
    /\ nops' = nops + 1
    /\ UNCHANGED <<DevPath, ExtentSize, Devices, extentbits, extents, jsonfile, kernel, ready, allok, call>>

\* ------------------------------------------------------------------------
\* The graph driver's requests, as far as they reach DmTool
\* ------------------------------------------------------------------------

\* the requests the driver can be serving at once
Reqs == {1, 2}

\* the sizes ApplyDiff asks ResizeDevice for
DriverSizes == {1024, 2048}

NoReq == [op |-> "", id |-> "", size |-> 0, pc |-> "idle", in |-> FALSE]

\* d.locker holds no id, no request is being served; removed (the ids a
\* Remove has returned for and no other request has named since) and last
\* (what the last request returned) are kept for the properties
NoDriver == [locks |-> {}, reqs |-> [r \in Reqs |-> NoReq], removed |-> {},
             last |-> [op |-> "", id |-> "", err |-> "nil"]]

getDiffPath(id) == "/home/" \o id \o "/diff"

\* the DmTool methods the requests call; a request is at pc = the method it
\* is about to call or, with in = TRUE, is executing
DmCalls == {"CreateDevice", "ResizeDevice", "DeleteDevice", "SetDeviceFsType",
            "SetDeviceMntPath", "SetDeviceReadonly", "Flush", "GetDeviceMntPath"}

\* the first DmTool call of a request
firstCall(op) ==
    CASE op = "Create"    -> "CreateDevice"
      [] op = "ApplyDiff" -> "ResizeDevice"
      [] op = "Remove"    -> "GetDeviceMntPath"

\* Remove is the one of these requests that takes d.locker.Lock(id)
takesLock(op) == op = "Remove"

\* the request of slot r returns err: deferred Unlock, slot free again
driverReturn(d, r, err) ==
    LET q == d.reqs[r]
    IN  [d EXCEPT !.reqs[r] = NoReq,
                  !.locks = IF takesLock(q.op) THEN @ \ {q.id} ELSE @,
                  !.removed = IF q.op = "Remove" THEN @ \cup {q.id} ELSE @,
                  !.last = [op |-> q.op, id |-> q.id, err |-> err]]

driverGoto(d, r, pc) == [d EXCEPT !.reqs[r].pc = pc, !.reqs[r].in = FALSE]

\* where the request of slot r goes when its DmTool call returned err
afterCall(d, r, err) ==
    LET q == d.reqs[r]
    IN  CASE q.op = "Create" -> driverReturn(d, r, err)
          [] q.op = "ApplyDiff" ->
                IF err # "nil" THEN driverReturn(d, r, err)
                ELSE driverGoto(d, r,
                        CASE q.pc = "ResizeDevice"      -> "cmd0"
                          [] q.pc = "SetDeviceFsType"   -> "SetDeviceMntPath"
                          [] q.pc = "SetDeviceMntPath"  -> "SetDeviceReadonly"
                          [] q.pc = "SetDeviceReadonly" -> "Flush"
                          [] q.pc = "Flush"             -> "cmd1")
          [] q.op = "Remove" ->
                IF q.pc = "GetDeviceMntPath" /\ err = "nil"
                THEN driverGoto(d, r, "DeleteDevice")
                ELSE driverGoto(d, r, "rmdir")

\* A request arrives. Remove waits for the lock of its id; Create and
\* ApplyDiff take none.
DriverBegin(r, op, id, size) ==
    /\ ready
    /\ nops < MaxOps
    /\ driver.reqs[r] = NoReq
    /\ takesLock(op) => id \notin driver.locks
    /\ driver' = [driver EXCEPT
                    !.reqs[r] = [op |-> op, id |-> id, size |-> size,
                                 pc |-> firstCall(op), in |-> FALSE],
                    !.locks = IF takesLock(op) THEN @ \cup {id} ELSE @,
                    !.removed = IF op = "Remove" THEN @ ELSE @ \ {id}]
    /\ UNCHANGED <<DevPath, ExtentSize, Devices, extentbits, extents, jsonfile, kernel,
                   ready, ret, allok, nops, tasks, call>>

\* the request of slot r enters the DmTool method it is at
DmEnter(r) ==
    /\ driver.reqs[r].pc \in DmCalls
    /\ ~driver.reqs[r].in
    /\ nops < MaxOps
    /\ driver' = [driver EXCEPT !.reqs[r].in = TRUE]
    /\ UNCHANGED <<DevPath, ExtentSize, Devices, extentbits, extents, jsonfile, kernel,
                   ready, ret, allok, nops, tasks, call>>

\* the DmTool method the request of slot r is in takes effect and returns
DmExit(r) ==
    /\ driver.reqs[r].in
    /\ LET q == driver.reqs[r]
       IN  \/ q.pc = "CreateDevice" /\ CreateDevice(q.id)
           \/ q.pc = "ResizeDevice" /\ ResizeDevice(q.id, q.size)
           \/ q.pc = "SetDeviceFsType" /\ SetDeviceFsType(q.id, "ext4")
           \/ q.pc = "SetDeviceMntPath" /\ SetDeviceMntPath(q.id, getDiffPath(q.id))
           \/ q.pc = "SetDeviceReadonly" /\ SetDeviceReadonly(q.id, TRUE)
           \/ q.pc = "Flush" /\ Flush
           \/ q.pc = "GetDeviceMntPath" /\ GetDeviceMntPath(q.id)
           \/ q.pc = "DeleteDevice" /\ DeleteDevice(q.id)
    /\ driver' = afterCall(driver, r, ret'.err)

\* what a request does outside DmTool: the commands and the mount of
\* ApplyDiff between ResizeDevice and SetDeviceFsType (cmd0) and after Flush
\* (cmd1), the EnsureRemoveAll of Remove (rmdir); each can fail
ExternalStep(r, ok) ==
    /\ driver.reqs[r].pc \in {"cmd0", "cmd1", "rmdir"}
    /\ driver' = IF ~ok THEN driverReturn(driver, r, "failed")
                 ELSE IF driver.reqs[r].pc = "cmd0"
                 THEN driverGoto(driver, r, "SetDeviceFsType")
                 ELSE driverReturn(driver, r, "nil")
    /\ UNCHANGED <<DevPath, ExtentSize, Devices, extentbits, extents, jsonfile, kernel,
                   ready, ret, allok, nops, tasks, call>>

\* ------------------------------------------------------------------------
\* Get and Put: the merged mount of a layer and its reference counter
\* ------------------------------------------------------------------------

\* The layers whose home holds the file "lower" (the layers created with a
\* parent).
LowerLayers == {"A"}

\* what can go wrong in a Get or a Put outside DmTool: nothing; ReadFile of
\* the lower file fails for another reason than its absence; one of the steps
\* of Get after the Increment fails
GetOutcomes == {"ok", "readerr", "fail"}

\* The driver with d.ctr and the merged mounts: ctr[id] is the count of
\* getMergedPath(id), merged[id] whether the overlay is mounted there. refs[id]
\* counts the Gets that returned the merged path and have not been Put, plain
\* [id] the Gets that returned the diff path and have not been Put.
MountDriver ==
    [locks |-> {}, reqs |-> [r \in Reqs |-> NoReq], removed |-> {},
     last |-> [op |-> "", id |-> "", err |-> "nil"],
     ctr |-> [id \in Names |-> 0], merged |-> [id \in Names |-> FALSE],
     refs |-> [id \in Names |-> 0], plain |-> [id \in Names |-> 0]]

\* Get returns the diff path or nil, err without touching d.ctr
getPlain(d, id, err) ==
    [d EXCEPT !.plain[id] = IF err = "nil" THEN @ + 1 ELSE @,
              !.last = [op |-> "Get", id |-> id, err |-> err]]

\* Get from the Increment on
getMerged(d, id, outcome) ==
    LET count == d.ctr[id] + 1
    IN  IF count > 1
        THEN [d EXCEPT !.ctr[id] = count, !.refs[id] = @ + 1,
                       !.last = [op |-> "Get", id |-> id, err |-> "nil"]]
        ELSE IF outcome = "fail"
        THEN [d EXCEPT !.ctr[id] = count - 1,
                       !.merged[id] = IF count - 1 <= 0 THEN FALSE ELSE @,
                       !.last = [op |-> "Get", id |-> id, err |-> "failed"]]
        ELSE [d EXCEPT !.ctr[id] = count, !.merged[id] = TRUE, !.refs[id] = @ + 1,
                       !.last = [op |-> "Get", id |-> id, err |-> "nil"]]

\* Get(id) under d.locker.Lock(id)
Get(id, outcome) ==
    /\ id \notin driver.locks
    /\ GetDeviceReadonly(id)
    /\ driver' = IF ret'.err = "nil" /\ ret'.val = TRUE
                 THEN getPlain(driver, id, "nil")
                 ELSE IF id \notin LowerLayers
                 THEN getPlain(driver, id, "nil")
                 ELSE IF outcome = "readerr"
                 THEN getPlain(driver, id, "failed")
                 ELSE getMerged(driver, id, outcome)

\* Put returns without touching d.ctr; held is the Get it answers ("refs" or
\* "plain"), which is released when Put returns nil
putPlain(d, id, held, err) ==
    [d EXCEPT ![held][id] = IF err = "nil" THEN @ - 1 ELSE @,
              !.last = [op |-> "Put", id |-> id, err |-> err]]

\* Put from the Decrement on
putMerged(d, id, held) ==
    LET count == d.ctr[id] - 1
    IN  [d EXCEPT !.ctr[id] = count,
                  !.merged[id] = IF count > 0 THEN @ ELSE FALSE,
                  ![held][id] = @ - 1,
                  !.last = [op |-> "Put", id |-> id, err |-> "nil"]]

\* Put(id) under d.locker.Lock(id), called for a Get that returned nil and
\* has not been Put yet
Put(id, held, outcome) ==
    /\ id \notin driver.locks
    /\ held \in {"refs", "plain"}
    /\ driver[held][id] > 0
    /\ GetDeviceReadonly(id)
    /\ driver' = IF ret'.err = "nil" /\ ret'.val = TRUE
                 THEN putPlain(driver, id, held, "nil")
                 ELSE IF id \notin LowerLayers
                 THEN putPlain(driver, id, held, "nil")
                 ELSE IF outcome = "readerr"
                 THEN putPlain(driver, id, held, "failed")
                 ELSE putMerged(driver, id, held)

\* ------------------------------------------------------------------------
\* CreateReadWrite with a device of its own (fstype neither "" nor "tmpfs")
\* ------------------------------------------------------------------------

getHomePath(id) == "/home/" \o id

\* the sizes CreateReadWrite asks ResizeDevice for
RwSizes == {1024, 4096}

\* the steps of CreateReadWrite outside DmTool: mkfs, the mount of the device
\* on the home of the layer, createSubDir
RwExternals == {"mkfs", "mount", "subdir"}

\* CreateReadWrite arrives; it takes no lock. rerr is the named result the
\* deferred functions read.
RwBegin(r, id, size) ==
    /\ ready
    /\ nops < MaxOps
    /\ driver.reqs[r] = NoReq
    /\ driver' = [driver EXCEPT
                    !.reqs[r] = [op |-> "CreateReadWrite", id |-> id, size |-> size,
                                 pc |-> "CreateDevice", in |-> FALSE, rerr |-> "nil"],
                    !.removed = @ \ {id}]
    /\ UNCHANGED <<DevPath, ExtentSize, Devices, extentbits, extents, jsonfile, kernel,
                   ready, ret, allok, nops, tasks, call>>

\* return rerr with the deferred DeleteDevice registered: it runs first
rwFail(d, r, rerr) ==
    [d EXCEPT !.reqs[r].pc = "DeleteDevice", !.reqs[r].in = FALSE, !.reqs[r].rerr = rerr]

\* where CreateReadWrite goes when its DmTool call returned err
rwAfterCall(d, r, err) ==
    LET q == d.reqs[r]
    IN  CASE q.pc = "CreateDevice" ->
                IF err # "nil" THEN driverReturn(d, r, "could not create device")
                ELSE driverGoto(d, r, "ResizeDevice")
          [] q.pc = "ResizeDevice" ->
                IF err # "nil" THEN rwFail(d, r, "could not resize device")
                ELSE driverGoto(d, r, "mkfs")
          [] q.pc = "DeleteDevice" -> driverReturn(d, r, q.rerr)
          [] OTHER ->
                IF err # "nil" THEN rwFail(d, r, err)
                ELSE driverGoto(d, r,
                        CASE q.pc = "SetDeviceFsType"   -> "SetDeviceMntPath"
                          [] q.pc = "SetDeviceMntPath"  -> "SetDeviceReadonly"
                          [] q.pc = "SetDeviceReadonly" -> "Flush"
                          [] q.pc = "Flush"             -> "subdir")

\* the DmTool method CreateReadWrite is in takes effect and returns
RwExit(r) ==
    /\ driver.reqs[r].op = "CreateReadWrite"
    /\ driver.reqs[r].in
    /\ LET q == driver.reqs[r]
       IN  \/ q.pc = "CreateDevice" /\ CreateDevice(q.id)
           \/ q.pc = "ResizeDevice" /\ ResizeDevice(q.id, q.size)
           \/ q.pc = "SetDeviceFsType" /\ SetDeviceFsType(q.id, "ext4")
           \/ q.pc = "SetDeviceMntPath" /\ SetDeviceMntPath(q.id, getHomePath(q.id))
           \/ q.pc = "SetDeviceReadonly" /\ SetDeviceReadonly(q.id, FALSE)
           \/ q.pc = "Flush" /\ (Flush \/ \E fault \in FlushFaults : FlushFails(fault))
           \/ q.pc = "DeleteDevice" /\ DeleteDevice(q.id)
    /\ driver' = rwAfterCall(driver, r, ret'.err)

\* mkfs, the mount and createSubDir; each can fail
RwExternal(r, ok) ==
    /\ driver.reqs[r].op = "CreateReadWrite"
    /\ driver.reqs[r].pc \in RwExternals
    /\ driver' = IF ~ok THEN rwFail(driver, r, "failed")
                 ELSE IF driver.reqs[r].pc = "mkfs" THEN driverGoto(driver, r, "mount")
                 ELSE IF driver.reqs[r].pc = "mount"
                 THEN driverGoto(driver, r, "SetDeviceFsType")
                 ELSE driverReturn(driver, r, "nil")
    /\ UNCHANGED <<DevPath, ExtentSize, Devices, extentbits, extents, jsonfile, kernel,
                   ready, ret, allok, nops, tasks, call>>

\* ------------------------------------------------------------------------
\* ResizeDevice inside concurrent requests, one step of findExtents at a time
\* ------------------------------------------------------------------------

\* The request of slot r keeps the local variables of its ResizeDevice call in
\* the field rs of its slot while it is inside the call. The bit set and the
\* catalogue are the shared ones; NextClear and Set are each taken as one step.

\* the slot without the locals of a call
raceLeave(d, r) == [d EXCEPT !.reqs[r] = [f \in DOMAIN NoReq |-> @[f]]]

\* ResizeDevice returns err to the request of slot r
raceReturn(d, r, err) == afterCall(raceLeave(d, r), r, err)

\* ResizeDevice up to the allocation loop
RaceBegin(r) ==
    LET q == driver.reqs[r]
    IN  /\ q.pc = "ResizeDevice"
        /\ ~q.in
        /\ nops < MaxOps
        /\ nops' = nops + 1
        /\ IF q.id \in DOMAIN Devices
           THEN LET device == Devices[q.id]
                    want   == newExtents(q.size, ExtentSize)
                IN  IF resizeIsNoop(want, device.Extents)
                    THEN /\ ret' = Ret("ResizeDevice", q.id, q.size, "nil", "")
                         /\ driver' = raceReturn(driver, r, "nil")
                         /\ UNCHANGED allok
                    ELSE IF want > device.Extents
                    THEN /\ driver' = [driver EXCEPT !.reqs[r] =
                               [op |-> q.op, id |-> q.id, size |-> q.size, pc |-> q.pc, in |-> TRUE,
                                rs |-> [pc |-> "loop", extents |-> want,
                                        remains |-> device.ExtentCount + (want - device.Extents),
                                        estart |-> device.ExtentStart, ecount |-> device.ExtentCount,
                                        eoffset |-> device.ExtentStart + device.ExtentCount,
                                        start |-> 0, count |-> 0, want |-> 0, offset |-> 0,
                                        ncount |-> 0, index |-> 0]]]
                         /\ UNCHANGED <<ret, allok>>
                    ELSE /\ ret' = Ret("ResizeDevice", q.id, q.size, "has no device", "")
                         /\ driver' = raceReturn(driver, r, "has no device")
                         /\ allok' = FALSE
           ELSE /\ ret' = Ret("ResizeDevice", q.id, q.size, "has no device", "")
                /\ driver' = raceReturn(driver, r, "has no device")
                /\ allok' = FALSE
        /\ UNCHANGED <<DevPath, ExtentSize, Devices, extentbits, extents, jsonfile, kernel,
                       ready, tasks, call>>

\* the request of slot r is inside ResizeDevice at this statement
raceAt(r, pc) ==
    /\ driver.reqs[r].in
    /\ "rs" \in DOMAIN driver.reqs[r]
    /\ driver.reqs[r].rs.pc = pc

\* for remains > 0: the call of findExtents
RaceLoop(r) ==
    /\ raceAt(r, "loop")
    /\ driver.reqs[r].rs.remains > 0
    /\ LET rs == driver.reqs[r].rs
       IN  driver' = [driver EXCEPT !.reqs[r].rs =
                         [rs EXCEPT !.pc = "find", !.start = rs.estart, !.count = rs.ecount,
                                    !.want = getMinUint64(rs.remains, 255),
                                    !.offset = rs.eoffset, !.ncount = 0]]
    /\ UNCHANGED <<DevPath, ExtentSize, Devices, extentbits, extents, jsonfile, kernel,
                   ready, ret, allok, nops, tasks, call>>

\* the loop test of findExtents and d.extentbits.NextClear(offset + 1): on to
\* the Set of the bit found, or out of the loop
RaceNextClear(r) ==
    /\ raceAt(r, "find")
    /\ LET rs == driver.reqs[r].rs
           nc == NextClear(extentbits, rs.offset + 1)
       IN  driver' = [driver EXCEPT !.reqs[r].rs =
                         IF ~(rs.count < rs.want) \/ ~nc.found
                            \/ (rs.count # 0 /\ nc.index # rs.offset + 1)
                         THEN [rs EXCEPT !.pc = "found"]
                         ELSE [rs EXCEPT !.pc = "set", !.index = nc.index,
                                         !.start = IF rs.count = 0 THEN nc.index - 1 ELSE rs.start]]
    /\ UNCHANGED <<DevPath, ExtentSize, Devices, extentbits, extents, jsonfile, kernel,
                   ready, ret, allok, nops, tasks, call>>

\* d.extentbits.Set(index) and the counters of findExtents
RaceSet(r) ==
    /\ raceAt(r, "set")
    /\ LET rs == driver.reqs[r].rs
       IN  /\ extentbits' = BitsetSet(extentbits, rs.index)
           /\ driver' = [driver EXCEPT !.reqs[r].rs =
                            [rs EXCEPT !.pc = "find", !.offset = rs.index,
                                       !.count = rs.count + 1, !.ncount = rs.ncount + 1]]
    /\ UNCHANGED <<DevPath, ExtentSize, Devices, extents, jsonfile, kernel,
                   ready, ret, allok, nops, tasks, call>>

\* findExtents has returned: ResizeDevice takes its result
RaceFound(r) ==
    /\ raceAt(r, "found")
    /\ LET q  == driver.reqs[r]
           rs == q.rs
       IN  IF rs.ncount = 0
           THEN IF rs.eoffset = 0
                THEN /\ ret' = Ret("ResizeDevice", q.id, q.size, "could not resize device", "")
                     /\ allok' = FALSE
                     /\ driver' = raceReturn(driver, r, "could not resize device")
                     /\ UNCHANGED Devices
                ELSE /\ driver' = [driver EXCEPT !.reqs[r].rs = [rs EXCEPT !.pc = "loop", !.eoffset = 0]]
                     /\ UNCHANGED <<Devices, ret, allok>>
           ELSE LET device  == Devices[q.id]
                    t       == packTarget(rs.start, rs.count)
                    targets == IF rs.ecount > 0
                               THEN [device.Targets EXCEPT ![Len(device.Targets)] = t]
                               ELSE Append(device.Targets, t)
                IN  /\ Devices' = [Devices EXCEPT ![q.id] =
                                      [device EXCEPT !.Targets = targets,
                                                     !.ExtentStart = rs.start,
                                                     !.ExtentCount = rs.count]]
                    /\ driver' = [driver EXCEPT !.reqs[r].rs =
                                     [rs EXCEPT !.pc = "loop", !.remains = rs.remains - rs.count,
                                                !.eoffset = rs.offset, !.estart = 0, !.ecount = 0]]
                    /\ UNCHANGED <<ret, allok>>
    /\ UNCHANGED <<DevPath, ExtentSize, extentbits, extents, jsonfile, kernel, ready, nops,
                   tasks, call>>

\* after the loop: reloadDevice, resumeDevice, device.Extents = extents,
\* return nil
RaceFinish(r) ==
    /\ raceAt(r, "loop")
    /\ ~(driver.reqs[r].rs.remains > 0)
    /\ LET q  == driver.reqs[r]
           k1 == reloadDevice(kernel, q.id, Devices[q.id], DevPath, ExtentSize)
       IN  /\ kernel' = resumeDevice(k1, q.id)
           /\ tasks' = <<reloadTask(kernel, q.id, Devices[q.id], DevPath, ExtentSize),
                         resumeTask(k1, q.id)>>
           /\ Devices' = [Devices EXCEPT ![q.id].Extents = q.rs.extents]
           /\ ret' = Ret("ResizeDevice", q.id, q.size, "nil", "")
           /\ driver' = raceReturn(driver, r, "nil")
    /\ UNCHANGED <<DevPath, ExtentSize, extentbits, extents, jsonfile, ready, allok, nops, call>>

\* ------------------------------------------------------------------------
\* Specification
\* ------------------------------------------------------------------------

\* NewDmTool(): an empty catalogue, nothing set up yet, no catalogue file
Init ==
    /\ DevPath = ""
    /\ ExtentSize = 0
    /\ Devices = NoDevices
    /\ extentbits = BitsetNew(0)
    /\ extents = 0
    /\ jsonfile = NoFile
    /\ kernel = NoKernel
    /\ ready = FALSE
    /\ ret = Ret("NewDmTool", "", 0, "nil", "")
    /\ allok = TRUE
    /\ nops = 0
    /\ tasks = <<>>
    /\ call = NoCall
    /\ driver = NoDriver

Next ==
    \/ \E p \in DevPaths, e \in ExtentSizes, reboot \in BOOLEAN : Setup(p, e, reboot) /\ UNCHANGED driver
    \/ Flush /\ UNCHANGED driver
    \/ \E n \in Names : CreateDevice(n) /\ UNCHANGED driver
    \/ \E n \in Names : DeleteDevice(n) /\ UNCHANGED driver
    \/ \E n \in Names, s \in Sizes : ResizeDevice(n, s) /\ UNCHANGED driver
    \/ \E n \in Names : HasDevice(n) /\ UNCHANGED driver
    \/ \E n \in Names, f \in FsTypes : SetDeviceFsType(n, f) /\ UNCHANGED driver
    \/ \E n \in Names, m \in MntPaths : SetDeviceMntPath(n, m) /\ UNCHANGED driver
    \/ \E n \in Names, r \in BOOLEAN : SetDeviceReadonly(n, r) /\ UNCHANGED driver
    \/ \E n \in Names : GetDeviceFsType(n) /\ UNCHANGED driver
    \/ \E n \in Names : GetDeviceMntPath(n) /\ UNCHANGED driver
    \/ \E n \in Names : GetDeviceReadonly(n) /\ UNCHANGED driver

Spec == Init /\ [][Next]_vars

\* The calls that change what Flush writes, with file operations that can
\* fail and a process that can stop inside Flush.
NextFaulty ==
    \/ \E p \in DevPaths, e \in ExtentSizes, reboot \in BOOLEAN : Setup(p, e, reboot) /\ UNCHANGED driver
    \/ Flush /\ UNCHANGED driver
    \/ \E fault \in FlushFaults : FlushFails(fault) /\ UNCHANGED driver
    \/ \E step \in (FlushFaults \ {"short"}) \cup {"none"} : FlushStops(step) /\ UNCHANGED driver
    \/ \E n \in Names : CreateDevice(n) /\ UNCHANGED driver
    \/ \E n \in Names : DeleteDevice(n) /\ UNCHANGED driver
    \/ \E n \in Names, s \in Sizes : ResizeDevice(n, s) /\ UNCHANGED driver
    \/ \E n \in Names, f \in FsTypes : SetDeviceFsType(n, f) /\ UNCHANGED driver
    \/ \E n \in Names, m \in MntPaths : SetDeviceMntPath(n, m) /\ UNCHANGED driver
    \/ \E n \in Names, r \in BOOLEAN : SetDeviceReadonly(n, r) /\ UNCHANGED driver

SpecFaulty == Init /\ [][NextFaulty]_vars

\* The state after Setup("/dev/sdd", 1024), CreateDevice("A"),
\* CreateDevice("B") and, for a prefix p > 0, ResizeDevice("B", p * 1024).
InitSteps ==
    \E p \in Prefixes :
        LET deviceB == IF p = 0 THEN DmDevice
                       ELSE [DmDevice EXCEPT !.Targets = <<packTarget(0, p)>>, !.Extents = p,
                                             !.ExtentStart = 0, !.ExtentCount = p]
            k0 == attachDevice(attachDevice(NoKernel, "A"), "B")
            k1 == reloadDevice(k0, "B", deviceB, "/dev/sdd", 1024)
        IN  /\ DevPath = "/dev/sdd"
            /\ ExtentSize = 1024
            /\ extents = getDeviceSize("/dev/sdd") \div 1024
            /\ Devices = [n \in {"A", "B"} |-> IF n = "B" THEN deviceB ELSE DmDevice]
            /\ extentbits = setExtents(BitsetNew(getDeviceSize("/dev/sdd") \div 1024), 0, p)
            /\ jsonfile = NoFile
            /\ kernel = IF p = 0 THEN k0 ELSE resumeDevice(k1, "B")
            /\ ready = TRUE
            /\ ret = IF p = 0 THEN Ret("CreateDevice", "B", 0, "nil", "")
                      ELSE Ret("ResizeDevice", "B", p * 1024, "nil", "")
            /\ allok = TRUE
            /\ nops = IF p = 0 THEN 3 ELSE 4
            /\ tasks = IF p = 0 THEN <<attachTask(attachDevice(NoKernel, "A"), "B")>>
                        ELSE <<reloadTask(k0, "B", deviceB, "/dev/sdd", 1024), resumeTask(k1, "B")>>
            /\ call = NoCall
            /\ driver = NoDriver

\* the maximal runs of a set of extents, lowest first, as packed Targets: what
\* one ResizeDevice of a new Device leaves when it takes exactly these extents
RECURSIVE RunsOf(_)
RunsOf(S) ==
    IF S = {} THEN <<>>
    ELSE LET a == SetMin(S)
             b == SetMin({e \in (a + 1)..(a + Cardinality(S)) : e \notin S})
         IN  <<packTarget(a, b - a)>> \o RunsOf(S \ (a..(b - 1)))

\* The state after Setup("/dev/sdb", 1024) and calls that ended with Device B
\* holding some set S of extents (allocated by one ResizeDevice while the
\* extents between its runs belonged to Devices deleted since) and Device A
\* just created; with n0 calls counted so far.
FitState(n0) ==
    \E S \in SUBSET (0..(DevUnits - 2)) :
        LET targets == RunsOf(S)
            last    == getTarget(targets[Len(targets)])
            deviceB == IF S = {} THEN DmDevice
                       ELSE [DmDevice EXCEPT !.Targets = targets, !.Extents = Cardinality(S),
                                             !.ExtentStart = last.start, !.ExtentCount = last.count]
            k0 == attachDevice(NoKernel, "B")
            k1 == resumeDevice(reloadDevice(k0, "B", deviceB, "/dev/sdb", 1024), "B")
        IN  /\ DevPath = "/dev/sdb"
            /\ ExtentSize = 1024
            /\ extents = getDeviceSize("/dev/sdb") \div 1024
            /\ Devices = [n \in {"A", "B"} |-> IF n = "B" THEN deviceB ELSE DmDevice]
            /\ extentbits = replayTargets(BitsetNew(getDeviceSize("/dev/sdb") \div 1024), targets, 1)
            /\ jsonfile = NoFile
            /\ kernel = attachDevice(k1, "A")
            /\ ready = TRUE
            /\ ret = Ret("CreateDevice", "A", 0, "nil", "")
            /\ allok = TRUE
            /\ nops = n0
            /\ tasks = <<attachTask(k1, "A")>>
            /\ call = NoCall
            /\ driver = NoDriver

\* two more calls are followed from there
InitFit == FitState(MaxOps - 2)

SpecFit == InitFit /\ [][Next]_vars

\* Three more calls, of those that allocate and of those that write the
\* catalogue and read it back in a new process (on a device that may have
\* gone away).
InitReplay == FitState(MaxOps - 3)

NextReplay ==
    \/ \E n \in Names, s \in Sizes : ResizeDevice(n, s) /\ UNCHANGED driver
    \/ Flush /\ UNCHANGED driver
    \/ \E p \in DevPaths \cup {"/dev/none"}, e \in ExtentSizes, reboot \in BOOLEAN :
          Setup(p, e, reboot) /\ UNCHANGED driver

SpecReplay == InitReplay /\ [][NextReplay]_vars

\* The state after Setup("/dev/sdb", 1024), CreateDevice("B") and, for
\* k > 0, ResizeDevice("B", k * 1024): the name A is not in the catalogue.
\* Three more calls are followed.
InitUnknown ==
    \E k \in 0..2 :
        LET deviceB == IF k = 0 THEN DmDevice
                       ELSE [DmDevice EXCEPT !.Targets = <<packTarget(0, k)>>, !.Extents = k,
                                             !.ExtentStart = 0, !.ExtentCount = k]
            k0 == attachDevice(NoKernel, "B")
            k1 == reloadDevice(k0, "B", deviceB, "/dev/sdb", 1024)
        IN  /\ DevPath = "/dev/sdb"
            /\ ExtentSize = 1024
            /\ extents = getDeviceSize("/dev/sdb") \div 1024
            /\ Devices = [n \in {"B"} |-> deviceB]
            /\ extentbits = setExtents(BitsetNew(getDeviceSize("/dev/sdb") \div 1024), 0, k)
            /\ jsonfile = NoFile
            /\ kernel = IF k = 0 THEN k0 ELSE resumeDevice(k1, "B")
            /\ ready = TRUE
            /\ ret = IF k = 0 THEN Ret("CreateDevice", "B", 0, "nil", "")
                      ELSE Ret("ResizeDevice", "B", k * 1024, "nil", "")
            /\ allok = TRUE
            /\ nops = MaxOps - 3
            /\ tasks = IF k = 0 THEN <<attachTask(NoKernel, "B")>>
                        ELSE <<reloadTask(k0, "B", deviceB, "/dev/sdb", 1024), resumeTask(k1, "B")>>
            /\ call = NoCall
            /\ driver = NoDriver

SpecUnknown == InitUnknown /\ [][Next]_vars

\* The same start with the file operations that can fail.
SpecUnknownFaulty == InitUnknown /\ [][NextFaulty]_vars

NextSteps ==
    \/ \E n \in Names, e \in StepExtents : ResizeBegin(n, e * 1024) /\ UNCHANGED driver
    \/ ResizeLoop /\ UNCHANGED driver
    \/ FindStep /\ UNCHANGED driver
    \/ FindReturn /\ UNCHANGED driver
    \/ ResizeReload /\ UNCHANGED driver
    \/ ResizeResume /\ UNCHANGED driver
    \/ ResizeFinish /\ UNCHANGED driver

SpecSteps == InitSteps /\ [][NextSteps]_vars

\* the statements of a ResizeDevice call that has begun
ResizeSteps ==
    \/ ResizeLoop
    \/ FindStep
    \/ FindReturn
    \/ ResizeReload
    \/ ResizeResume
    \/ ResizeFinish

\* ResizeDevice statement by statement on the small device, from every
\* layout of FitState
NextStepsFit ==
    \/ \E n \in Names, s \in Sizes : ResizeBegin(n, s) /\ UNCHANGED driver
    \/ ResizeLoop /\ UNCHANGED driver
    \/ FindStep /\ UNCHANGED driver
    \/ FindReturn /\ UNCHANGED driver
    \/ ResizeReload /\ UNCHANGED driver
    \/ ResizeResume /\ UNCHANGED driver
    \/ ResizeFinish /\ UNCHANGED driver

\* a call that has begun keeps executing its statements
SpecStepsFit == InitFit /\ [][NextStepsFit]_vars /\ WF_vars(ResizeSteps /\ UNCHANGED driver)

\* A start of 64 bits (below 2^56 when its first byte is 0) and a count of
\* 1..255 about to be packed, in a DmTool that is not set up.
InitPack ==
    /\ DevPath = ""
    /\ ExtentSize = 0
    /\ Devices = NoDevices
    /\ extentbits = BitsetNew(0)
    /\ extents = 0
    /\ jsonfile = NoFile
    /\ kernel = NoKernel
    /\ ready = FALSE
    /\ ret = Ret("NewDmTool", "", 0, "nil", "")
    /\ allok = TRUE
    /\ nops = 0
    /\ tasks = <<>>
    /\ driver = NoDriver
    /\ \E top \in {0, 1}, b2 \in PackBytes, b3 \in PackBytes, b4 \in PackBytes, b5 \in PackBytes,
          b6 \in PackBytes, b7 \in PackBytes, b8 \in PackBytes, c \in PackCounts :
          call = [pc |-> "pack", start |-> <<top, b2, b3, b4, b5, b6, b7, b8>>,
                  count |-> Uint64(c), target |-> Uint64(0),
                  got |-> [start |-> Uint64(0), count |-> Uint64(0)]]

\* ResizeDevice statement by statement, and the packing on its own for the
\* starts no device of the model is large enough to have
NextPack ==
    \/ NextSteps
    \/ PackStep /\ UNCHANGED driver
    \/ UnpackStep /\ UNCHANGED driver

InitPackOrSteps == InitSteps \/ InitPack

SpecPack == InitPackOrSteps /\ [][NextPack]_vars

\* The driver after Init (Setup on "/dev/sdb" with 1024-byte extents) and,
\* for s > 0, after Create("A") and an ApplyDiff("A") of s extents; MaxOps - n0
\* DmTool calls are followed from there.
DriverState(n0) ==
    \E s \in 0..2 :
        LET deviceA == [DmDevice EXCEPT !.Targets = <<packTarget(0, s)>>, !.Extents = s,
                                        !.ExtentStart = 0, !.ExtentCount = s,
                                        !.FsType = "ext4", !.MntPath = getDiffPath("A"),
                                        !.Readonly = TRUE]
            devs == IF s = 0 THEN NoDevices ELSE [n \in {"A"} |-> deviceA]
            k0   == attachDevice(NoKernel, "A")
        IN  /\ DevPath = "/dev/sdb"
            /\ ExtentSize = 1024
            /\ extents = getDeviceSize("/dev/sdb") \div 1024
            /\ Devices = devs
            /\ extentbits = setExtents(BitsetNew(getDeviceSize("/dev/sdb") \div 1024), 0, s)
            /\ jsonfile = IF s = 0 THEN NoFile ELSE Marshal("/dev/sdb", 1024, devs)
            /\ kernel = IF s = 0 THEN NoKernel
                        ELSE resumeDevice(reloadDevice(k0, "A", deviceA, "/dev/sdb", 1024), "A")
            /\ ready = TRUE
            /\ ret = IF s = 0 THEN Ret("Setup", "/dev/sdb", 1024, "nil", "")
                      ELSE Ret("Flush", "", 0, "nil", "")
            /\ allok = TRUE
            /\ nops = n0
            /\ tasks = <<>>
            /\ call = NoCall
            /\ driver = NoDriver

\* the steps of the requests served in the slots R
DriverSteps(R) ==
    \/ \E r \in R, id \in Names : DriverBegin(r, "Create", id, 0)
    \/ \E r \in R, id \in Names, s \in DriverSizes : DriverBegin(r, "ApplyDiff", id, s)
    \/ \E r \in R, id \in Names : DriverBegin(r, "Remove", id, 0)
    \/ \E r \in R : DmEnter(r)
    \/ \E r \in R : DmExit(r)
    \/ \E r \in R, ok \in BOOLEAN : ExternalStep(r, ok)

\* Requests arrive while others are being served.
InitDriver == DriverState(3)

NextDriver == DriverSteps(Reqs)

SpecDriver == InitDriver /\ [][NextDriver]_vars

\* One request at a time: the next arrives when the last has returned.
InitDriverSeq == DriverState(0)

NextDriverSeq == DriverSteps({1})

SpecDriverSeq == InitDriverSeq /\ [][NextDriverSeq]_vars

\* The driver after Init and Create("A"), Create("B"): both Devices are in the
\* catalogue without Targets.
InitRace ==
    /\ DevPath = "/dev/sdb"
    /\ ExtentSize = 1024
    /\ extents = getDeviceSize("/dev/sdb") \div 1024
    /\ Devices = [n \in {"A", "B"} |-> DmDevice]
    /\ extentbits = BitsetNew(getDeviceSize("/dev/sdb") \div 1024)
    /\ jsonfile = NoFile
    /\ kernel = attachDevice(attachDevice(NoKernel, "A"), "B")
    /\ ready = TRUE
    /\ ret = Ret("CreateDevice", "B", 0, "nil", "")
    /\ allok = TRUE
    /\ nops = 3
    /\ tasks = <<attachTask(attachDevice(NoKernel, "A"), "B")>>
    /\ call = NoCall
    /\ driver = NoDriver

\* ApplyDiff requests arrive for both layers and run their ResizeDevice while
\* the other is inside its own.
NextRace ==
    \/ \E r \in Reqs, id \in Names, s \in DriverSizes : DriverBegin(r, "ApplyDiff", id, s)
    \/ \E r \in Reqs : RaceBegin(r)
    \/ \E r \in Reqs : RaceLoop(r)
    \/ \E r \in Reqs : RaceNextClear(r)
    \/ \E r \in Reqs : RaceSet(r)
    \/ \E r \in Reqs : RaceFound(r)
    \/ \E r \in Reqs : RaceFinish(r)

SpecRace == InitRace /\ [][NextRace]_vars

\* The driver after Init and Create("A"), Create("B"), nothing mounted: Get,
\* Put and ApplyDiff requests follow, Get and Put while an ApplyDiff is between
\* two of its steps too.
InitMount ==
    /\ DevPath = "/dev/sdb"
    /\ ExtentSize = 1024
    /\ extents = getDeviceSize("/dev/sdb") \div 1024
    /\ Devices = [n \in {"A", "B"} |-> DmDevice]
    /\ extentbits = BitsetNew(getDeviceSize("/dev/sdb") \div 1024)
    /\ jsonfile = NoFile
    /\ kernel = attachDevice(attachDevice(NoKernel, "A"), "B")
    /\ ready = TRUE
    /\ ret = Ret("CreateDevice", "B", 0, "nil", "")
    /\ allok = TRUE
    /\ nops = 0
    /\ tasks = <<attachTask(attachDevice(NoKernel, "A"), "B")>>
    /\ call = NoCall
    /\ driver = MountDriver

NextMount ==
    \/ \E id \in Names, outcome \in GetOutcomes : Get(id, outcome)
    \/ \E id \in Names, held \in {"refs", "plain"}, outcome \in GetOutcomes \ {"fail"} :
            Put(id, held, outcome)
    \/ \E id \in Names : DriverBegin(1, "ApplyDiff", id, 1024)
    \/ DmEnter(1)
    \/ DmExit(1)
    \/ \E ok \in BOOLEAN : ExternalStep(1, ok)

SpecMount == InitMount /\ [][NextMount]_vars

\* CreateReadWrite requests for the layer "B", one at a time, in the driver
\* after Init and, possibly, Create("A") and an ApplyDiff("A").
InitRw == DriverState(0)

NextRw ==
    \/ \E size \in RwSizes : RwBegin(1, "B", size)
    \/ DmEnter(1)
    \/ RwExit(1)
    \/ \E ok \in BOOLEAN : RwExternal(1, ok)

SpecRw == InitRw /\ [][NextRw]_vars


\* ------------------------------------------------------------------------
\* Vocabulary of the properties
\* ------------------------------------------------------------------------

\* the physical extents [start, start+count) a packed Target describes
TargetExtents(target) ==
    LET t == getTarget(target) IN t.start .. (t.start + t.count - 1)

\* the physical extents covered by the Targets of a Device
OwnedExtents(device) ==
    UNION {TargetExtents(device.Targets[i]) : i \in 1..Len(device.Targets)}

RECURSIVE SumCounts(_, _)
SumCounts(targets, i) ==
    IF i > Len(targets) THEN 0
    ELSE getTarget(targets[i]).count + SumCounts(targets, i + 1)

\* bits the allocator can hand out and that are clear
FreeBits(b) == {i \in 1..(b.length - 1) : i \notin b.bits}

IsPrefix(s, t) == Len(s) <= Len(t) /\ \A i \in 1..Len(s) : s[i] = t[i]

\* the last call was op, on name, and returned nil
Returned(r, op) == r.op = op /\ r.err = "nil"

\* the last call was a Setup that found a catalogue written for its own
\* devpath and extentsize
ReplayedSetup ==
    /\ Returned(ret, "Setup")
    /\ jsonfile.exists
    /\ jsonfile.devpath = ret.name /\ jsonfile.extentsize = ret.arg

\* the linear table reloadDevice builds from a list of Targets
TableOf(targets) == reloadTable(targets, 1, 0, ExtentSize \div 512, DevPath)

\* the kernel entry of devname is what the catalogue says: absent for an
\* unknown name, the one-sector zero table for a Device without Targets, the
\* linear table of its Targets otherwise
KernelAgrees(devname) ==
    IF devname \notin DOMAIN Devices THEN ~kernel[devname].exists
    ELSE /\ kernel[devname].exists
         /\ kernel[devname].live =
                IF Devices[devname].Targets = <<>>
                THEN <<[start |-> 0, size |-> 1, ttype |-> "zero", params |-> <<>>]>>
                ELSE TableOf(Devices[devname].Targets)

\* position i of the task log is a task of this kind on this device
TaskAt(i, kind, devname) ==
    i \in 1..Len(tasks) /\ tasks[i].kind = kind /\ tasks[i].name = devname

\* ------------------------------------------------------------------------
\* Properties
\* ------------------------------------------------------------------------

\* C1: after a fresh Setup and CreateDevice/ResizeDevice/DeleteDevice calls
\* that all returned success, no physical extent is covered by Targets of two
\* different Devices of the catalogue, nor twice by Targets of one Device.
C1_Disjoint ==
    (ready /\ allok) =>
        /\ \A n \in DOMAIN Devices, m \in DOMAIN Devices :
              n # m => OwnedExtents(Devices[n]) \cap OwnedExtents(Devices[m]) = {}
        /\ \A n \in DOMAIN Devices :
              \A i \in 1..Len(Devices[n].Targets), j \in 1..Len(Devices[n].Targets) :
                 i # j => TargetExtents(Devices[n].Targets[i])
                              \cap TargetExtents(Devices[n].Targets[j]) = {}

\* C2: in every state reached by successful calls, bit e+1 of the bitmap is
\* set exactly when extent e belongs to a Target of some Device.
C2_BitmapIsUnion ==
    (ready /\ allok) =>
        extentbits.bits = {e + 1 : e \in UNION {OwnedExtents(Devices[n]) : n \in DOMAIN Devices}}

\* C3: every Target (start, count) of every Device has 1 <= count <= 255,
\* start + count <= total_extents, and the bit of each of its extents set.
C3_TargetBounds ==
    ready =>
        \A n \in DOMAIN Devices : \A i \in 1..Len(Devices[n].Targets) :
            LET t == getTarget(Devices[n].Targets[i])
            IN  /\ t.count >= 1 /\ t.count <= 255
                /\ t.start + t.count <= extents
                /\ \A e \in t.start .. (t.start + t.count - 1) : (e + 1) \in extentbits.bits

\* C4: after every ResizeDevice that returns success the Device's Extents
\* equals the sum of the counts of its Targets, whatever came before.
C4_ExtentsIsSum ==
    (Returned(ret, "ResizeDevice") /\ ret.name \in DOMAIN Devices) =>
        Devices[ret.name].Extents = SumCounts(Devices[ret.name].Targets, 1)

\* C5: a ResizeDevice growing a Device that has Targets adds exactly
\* new_extents - current extents; when the last Target has count 255 or the
\* extent right after it is occupied (and enough extents are free), the call
\* succeeds and leaves the existing Targets unchanged, appending new ones.
C5_GrowAppends ==
    [][\A n \in DOMAIN Devices :
          LET device == Devices[n]
              want   == newExtents(ret'.arg, ExtentSize)
              last   == getTarget(device.Targets[Len(device.Targets)])
              more   == want - device.Extents
          IN  (/\ ret'.op = "ResizeDevice" /\ ret'.name = n
               /\ allok
               /\ device.Targets # <<>>
               /\ want > device.Extents)
              =>
              /\ ret'.err = "nil" =>
                    SumCounts(Devices'[n].Targets, 1) = SumCounts(device.Targets, 1) + more
              /\ (/\ last.count = 255 \/ (last.start + last.count + 1) \in extentbits.bits
                  /\ Cardinality(FreeBits(extentbits)) >= more)
                 =>
                 /\ ret'.err = "nil"
                 /\ IsPrefix(device.Targets, Devices'[n].Targets)
      ]_vars

\* C6: a growing ResizeDevice on a known Device returns the out-of-space error
\* only when fewer than new_extents - current allocatable extents are free.
C6_OutOfSpaceOnlyWhenFull ==
    [][\A n \in DOMAIN Devices :
          LET want == newExtents(ret'.arg, ExtentSize)
          IN  (/\ ret'.op = "ResizeDevice" /\ ret'.name = n
               /\ want > Devices[n].Extents
               /\ ret'.err # "nil")
              => Cardinality(FreeBits(extentbits)) < want - Devices[n].Extents
      ]_vars

\* C7: after a successful DeleteDevice(name) the Device is no longer in the
\* catalogue.
C7_DeleteDrops ==
    Returned(ret, "DeleteDevice") => ret.name \notin DOMAIN Devices

\* C8: DeleteDevice(name) clears the bit of every extent of every Target of
\* the Device, and a ResizeDevice of a Device without Targets, made while
\* extent 0 is free, places the first Target at start 0.
C8_DeleteFrees ==
    [][/\ (Returned(ret', "DeleteDevice") /\ ret'.name \in DOMAIN Devices) =>
              \A e \in OwnedExtents(Devices[ret'.name]) : (e + 1) \notin extentbits'.bits
       /\ \A n \in DOMAIN Devices :
              (/\ ret'.op = "ResizeDevice" /\ ret'.name = n
               /\ Devices[n].Targets = <<>>
               /\ newExtents(ret'.arg, ExtentSize) > Devices[n].Extents
               /\ 1 \in FreeBits(extentbits))
              => /\ Devices'[n].Targets # <<>>
                 /\ getTarget(Devices'[n].Targets[1]).start = 0
      ]_vars

\* C8 witness: a Device that owned extent 0 was deleted (its kernel entry is
\* gone), and the ResizeDevice of another, empty Device then got start 0.
C8_Witness ==
    \E n \in DOMAIN Devices, m \in DOMAIN Devices :
        /\ n # m
        /\ Returned(ret, "ResizeDevice") /\ ret.name = n
        /\ Len(Devices[n].Targets) = 1
        /\ getTarget(Devices[n].Targets[1]).start = 0
        /\ 0 \in OwnedExtents(Devices[m])
        /\ ~kernel[m].exists

\* C9: when Setup reads a catalogue whose devpath or extentsize differs from
\* its inputs, the catalogue is empty and the bitmap all clear afterwards.
C9_MismatchDiscards ==
    (/\ Returned(ret, "Setup")
     /\ jsonfile.exists
     /\ (jsonfile.devpath # ret.name \/ jsonfile.extentsize # ret.arg))
    => /\ Devices = NoDevices
       /\ extentbits.bits = {}

\* C10: Flush followed by Setup with the same devpath and extentsize
\* reconstructs the catalogue and the bitmap that were in memory at the Flush.
C10_RoundTrip ==
    [][(/\ Returned(ret, "Flush")
        /\ Returned(ret', "Setup")
        /\ ret'.name = DevPath /\ ret'.arg = ExtentSize)
       => /\ Devices' = Devices
          /\ extentbits' = extentbits
      ]_vars

\* C11: after a Setup that replays a matching catalogue, every catalogued
\* Device has a kernel entry, a Reload carrying the linear table of its
\* Targets was run for it and a Resume right after, that table is the live one
\* (for a Device that has Targets), and the bit of every extent of every
\* Target is set.
C11_ReplayRestores ==
    ReplayedSetup =>
        \A n \in DOMAIN jsonfile.devices :
            LET targets == jsonfile.devices[n].targets
            IN  /\ n \in DOMAIN Devices
                /\ Devices[n].Targets = targets
                /\ kernel[n].exists
                /\ \E i \in 1..Len(tasks) :
                       /\ TaskAt(i, "Reload", n) /\ tasks[i].table = TableOf(targets)
                       /\ TaskAt(i + 1, "Resume", n)
                /\ targets # <<>> =>
                       /\ kernel[n].live = TableOf(targets)
                       /\ ~kernel[n].loaded
                /\ \A i \in 1..Len(targets) : \A e \in TargetExtents(targets[i]) :
                       (e + 1) \in extentbits.bits

\* C11 witness: a Setup after a reboot replayed a Device with a Target: the
\* kernel entry had to be created first, and the linear table is live.
C11_Witness ==
    /\ ReplayedSetup
    /\ \E n \in DOMAIN jsonfile.devices :
           /\ jsonfile.devices[n].targets # <<>>
           /\ \E i \in 1..Len(tasks) : TaskAt(i, "Create", n) /\ tasks[i].ok
           /\ kernel[n].live = TableOf(jsonfile.devices[n].targets)

\* C12: when a device-mapper task of CreateDevice, DeleteDevice, ResizeDevice
\* or of Setup's replay fails, the call does not return success while the
\* kernel entry of the task's device differs from the catalogue.
C12_TaskFailureSurfaces ==
    (/\ ret.op \in {"Setup", "CreateDevice", "DeleteDevice", "ResizeDevice"}
     /\ ret.err = "nil")
    => \A i \in 1..Len(tasks) : ~tasks[i].ok => KernelAgrees(tasks[i].name)

\* C13: the file at jsonpath changes only when Flush reaches its rename, and
\* then to the complete new catalogue; a Flush that returns an error leaves it
\* as it was, a Flush that returns nil has written the new catalogue, and
\* whatever stops the process inside Flush the file is the complete old or the
\* complete new catalogue, never a part of one.
C13_FlushAtomic ==
    [][/\ jsonfile' # jsonfile =>
              /\ ret'.op = "Flush" /\ ret'.err \in {"nil", "stopped"}
              /\ jsonfile' = Marshal(DevPath, ExtentSize, Devices)
       /\ (ret'.op = "Flush" /\ ret'.err \notin {"nil", "stopped"}) => jsonfile' = jsonfile
       /\ Returned(ret', "Flush") => jsonfile' = Marshal(DevPath, ExtentSize, Devices)
       /\ jsonfile'.exists => Parses(jsonfile')
      ]_vars

\* C13 witness: a Flush failed or was cut short after the catalogue had
\* changed since the last commit: the file still holds the complete old one.
C13_Witness ==
    /\ ret.op = "Flush" /\ ret.err # "nil"
    /\ Parses(jsonfile)
    /\ jsonfile # Marshal(DevPath, ExtentSize, Devices)
    /\ DOMAIN jsonfile.devices # DOMAIN Devices

\* C14: after a ResizeDevice(name, size) that returns success the capacity of
\* the Device, Extents * ExtentSize, is at least size: a size that is not a
\* multiple of ExtentSize is rounded up.
C14_RoundsUp ==
    (Returned(ret, "ResizeDevice") /\ ret.name \in DOMAIN Devices) =>
        Devices[ret.name].Extents * ExtentSize >= ret.arg

\* C15: a ResizeDevice of a Device without Targets to n extents, 255 < n <= 510,
\* begun when the n extents from the lowest free one are free, returns nil
\* and leaves exactly two Targets, (a, 255) and (a + 255, n - 255), a being
\* that lowest free extent.
C15_SplitAtCap ==
    [][LET n == call.extents
           a == SetMin(FreeBits(call.bits0)) - 1
       IN  (/\ call.pc # "idle" /\ call'.pc = "idle"
            /\ call.targets0 = <<>> /\ call.extents0 = 0
            /\ n > 255 /\ n <= 510
            /\ FreeBits(call.bits0) # {}
            /\ \A e \in a .. (a + n - 1) : (e + 1) \in FreeBits(call.bits0))
           => /\ Returned(ret', "ResizeDevice")
              /\ Devices'[call.name].Targets = <<packTarget(a, 255), packTarget(a + 255, n - 255)>>
              /\ Devices'[call.name].Extents = n
      ]_vars

\* C15 witness: a call for 300 extents, begun behind three allocated extents,
\* has returned with the Targets (3, 255) and (258, 45).
C15_Witness ==
    /\ Returned(ret, "ResizeDevice") /\ ret.arg = 300 * 1024
    /\ call = NoCall
    /\ ret.name \in DOMAIN Devices
    /\ Devices[ret.name].Targets = <<packTarget(3, 255), packTarget(258, 45)>>

\* C16: the first ResizeDevice of a Device without Targets, made while some
\* extent is free, puts the first Target at the lowest free extent a; when the
\* request is for no more extents than are free in a row from a, the call
\* returns nil and the single Target (a, request) lies inside that hole.
C16_FirstFit ==
    [][\A n \in DOMAIN Devices :
          LET free == FreeBits(extentbits)
              a    == SetMin(free) - 1
              b    == SetMin({e \in (a + 1)..extentbits.length : (e + 1) \notin free})
              want == newExtents(ret'.arg, ExtentSize)
          IN  (/\ ret'.op = "ResizeDevice" /\ ret'.name = n
               /\ Devices[n].Targets = <<>> /\ Devices[n].Extents = 0
               /\ free # {})
              => /\ Devices'[n].Targets # <<>>
                 /\ getTarget(Devices'[n].Targets[1]).start = a
                 /\ want <= b - a =>
                        /\ ret'.err = "nil"
                        /\ Devices'[n].Targets = <<packTarget(a, want)>>
      ]_vars

\* C16 witness: with extent 0 allocated, extent 1 free, extent 2 allocated
\* and extent 3 free, the new Device got the Target (1, 1).
C16_Witness ==
    /\ Returned(ret, "ResizeDevice") /\ ret.name \in DOMAIN Devices
    /\ Devices[ret.name].Targets = <<packTarget(1, 1)>>
    /\ {1, 3} \subseteq extentbits.bits
    /\ 4 \in FreeBits(extentbits)

\* C17: a ResizeDevice of a Device whose Readonly is true leaves its Targets
\* and Extents and the bitmap as they are and runs no Reload for it.
C17_ReadonlyNeverResized ==
    [][\A n \in DOMAIN Devices :
          (/\ ret'.op = "ResizeDevice" /\ ret'.name = n
           /\ Devices[n].Readonly)
          => /\ Devices'[n].Targets = Devices[n].Targets
             /\ Devices'[n].Extents = Devices[n].Extents
             /\ extentbits' = extentbits
             /\ \A i \in 1..Len(tasks') : ~(tasks'[i].kind = "Reload" /\ tasks'[i].name = n)
      ]_vars

\* C18: a ResizeDevice asking for no more extents than the Device has returns
\* nil when it asks for exactly as many and an error when it asks for fewer;
\* either way the catalogue, the bitmap and the kernel tables are unchanged
\* and no device-mapper task is run.
C18_NoGrowNoChange ==
    [][\A n \in DOMAIN Devices :
          LET want == newExtents(ret'.arg, ExtentSize)
          IN  (/\ ret'.op = "ResizeDevice" /\ ret'.name = n
               /\ want <= Devices[n].Extents)
              => /\ want = Devices[n].Extents => ret'.err = "nil"
                 /\ want < Devices[n].Extents => ret'.err # "nil"
                 /\ Devices' = Devices
                 /\ extentbits' = extentbits
                 /\ kernel' = kernel
                 /\ tasks' = <<>>
      ]_vars

\* C18 witness: a Device of two extents was asked to shrink to one and the
\* call was rejected.
C18_Witness ==
    /\ ret.op = "ResizeDevice" /\ ret.err # "nil"
    /\ ret.name \in DOMAIN Devices
    /\ Devices[ret.name].Extents = 2
    /\ Len(Devices[ret.name].Targets) = 1
    /\ newExtents(ret.arg, ExtentSize) = 1

C20_SettersFrame ==
    [][/\ \A n \in Names :
            (ret'.op \in {"SetDeviceFsType", "SetDeviceMntPath", "SetDeviceReadonly"} /\ ret'.name = n)
            => /\ extentbits' = extentbits /\ kernel' = kernel /\ jsonfile' = jsonfile
               /\ tasks' = <<>>
               /\ IF n \in DOMAIN Devices
                  THEN /\ ret'.err = "nil"
                       /\ Devices' =
                            CASE ret'.op = "SetDeviceFsType"   -> [Devices EXCEPT ![n].FsType = ret'.arg]
                              [] ret'.op = "SetDeviceMntPath"  -> [Devices EXCEPT ![n].MntPath = ret'.arg]
                              [] ret'.op = "SetDeviceReadonly" -> [Devices EXCEPT ![n].Readonly = ret'.arg]
                  ELSE ret'.err # "nil" /\ Devices' = Devices
       /\ \A n \in DOMAIN Devices :
            /\ (ret'.op = "GetDeviceFsType" /\ ret'.name = n) =>
                  ret'.err = "nil" /\ ret'.val = Devices[n].FsType
            /\ (ret'.op = "GetDeviceMntPath" /\ ret'.name = n) =>
                  ret'.err = "nil" /\ ret'.val = Devices[n].MntPath
            /\ (ret'.op = "GetDeviceReadonly" /\ ret'.name = n) =>
                  ret'.err = "nil" /\ ret'.val = Devices[n].Readonly
       /\ \A op \in {"FsType", "MntPath", "Readonly"} :
            (/\ Returned(ret, "SetDevice" \o op)
             /\ ret'.op = "GetDevice" \o op /\ ret'.name = ret.name)
            => ret'.err = "nil" /\ ret'.val = ret.arg
      ]_vars

\* C20 witness: GetDeviceMntPath, right after SetDeviceMntPath on a Device
\* that has a file system type and holds extents, returned the path set; the
\* type is still there.
C20_Witness ==
    /\ Returned(ret, "GetDeviceMntPath")
    /\ ret.val \in MntPaths
    /\ Devices[ret.name].FsType \in FsTypes
    /\ Devices[ret.name].Targets # <<>>

\* the calls that look a name up in the catalogue first
LookupOps ==
    {"DeleteDevice", "ResizeDevice", "HasDevice",
     "SetDeviceFsType", "SetDeviceMntPath", "SetDeviceReadonly",
     "GetDeviceFsType", "GetDeviceMntPath", "GetDeviceReadonly"}

\* C21: DeleteDevice, ResizeDevice, HasDevice and every SetDevice*/GetDevice*
\* called with a name that is not in the catalogue returns an error and
\* leaves the bitmap, the catalogue, the kernel state and the catalogue file
\* as they were; it issues no device-mapper task.
C21_UnknownNameRejected ==
    [][ (ret'.op \in LookupOps /\ ret'.name \notin DOMAIN Devices) =>
            /\ ret'.err # "nil"
            /\ extentbits' = extentbits
            /\ Devices' = Devices
            /\ kernel' = kernel
            /\ jsonfile' = jsonfile
            /\ tasks' = <<>>
      ]_vars

\* C21 witness: DeleteDevice of a name the catalogue does not have was
\* refused while another Device holds extents and has a kernel entry.
C21_Witness ==
    /\ ret.op = "DeleteDevice"
    /\ ret.name \notin DOMAIN Devices
    /\ ret.err # "nil"
    /\ \E n \in DOMAIN Devices : Devices[n].Targets # <<>> /\ kernel[n].exists

\* the DmTool methods that write DmTool's state or the catalogue file
MutatingCalls == DmCalls \ {"GetDeviceMntPath"}

\* C22: the driver serialises DmTool: of the DmTool calls that concurrent
\* driver requests are executing at one time, at most one is a mutating one
\* (CreateDevice, ResizeDevice, DeleteDevice, SetDevice*, Flush), and no read
\* is executing while a mutating call is.
C22_Serialised ==
    \A r1 \in Reqs, r2 \in Reqs :
        (r1 # r2 /\ driver.reqs[r1].in /\ driver.reqs[r2].in) =>
            /\ driver.reqs[r1].pc \notin MutatingCalls
            /\ driver.reqs[r2].pc \notin MutatingCalls

\* C23: driver Remove(id) is an idempotent delete: while a Remove serves a
\* layer that has no DmTool Device, or an id a Remove has returned for before,
\* the bitmap and the Targets of every other Device stay as they are, and the
\* Remove returns nil (unless its own EnsureRemoveAll failed).
C23_RemoveIdempotent ==
    [][ \A r \in Reqs :
          LET q == driver.reqs[r]
          IN  (q.op = "Remove" /\ (q.id \notin DOMAIN Devices \/ q.id \in driver.removed)) =>
                 /\ extentbits' = extentbits
                 /\ \A n \in DOMAIN Devices \ {q.id} :
                        n \in DOMAIN Devices' /\ Devices'[n].Targets = Devices[n].Targets
                 /\ driver'.reqs[r] = NoReq => driver'.last.err \in {"nil", "failed"}
      ]_vars

\* the call just made ran a Reload or a Resume for devname
ReloadsOrResumes(log, devname) ==
    \E i \in 1..Len(log) : log[i].name = devname /\ log[i].kind \in {"Reload", "Resume"}

\* C24: Removed is terminal: a ResizeDevice(name) that directly follows a
\* successful DeleteDevice(name) (no CreateDevice(name) in between) runs no
\* Reload and no Resume for name and allocates no extents to it; nor does a
\* ResizeDevice of a name that is not in the catalogue run any.
C24_RemovedIsTerminal ==
    [][ /\ (Returned(ret, "DeleteDevice") /\ ret'.op = "ResizeDevice" /\ ret'.name = ret.name) =>
              /\ ~ReloadsOrResumes(tasks', ret.name)
              /\ extentbits' = extentbits
              /\ Devices'[ret.name].Targets = Devices[ret.name].Targets
        /\ (ret'.op = "ResizeDevice" /\ ret'.name \notin DOMAIN Devices) =>
              ~ReloadsOrResumes(tasks', ret'.name)
      ]_vars

C26_CookieWaited ==
    \A i \in 1..Len(tasks) :
        (tasks[i].kind \in {"Create", "Resume", "Remove"} /\ tasks[i].cookie) => tasks[i].wait

\* C26 witness: a Setup after a reboot replayed a Device: it ran a Create and
\* a Resume, both with a cookie.
C26_Witness ==
    /\ Returned(ret, "Setup")
    /\ \E i \in 1..Len(tasks), j \in 1..Len(tasks) :
          /\ tasks[i].kind = "Create" /\ tasks[i].cookie /\ tasks[i].wait
          /\ tasks[j].kind = "Resume" /\ tasks[j].cookie /\ tasks[j].wait
          /\ tasks[i].name = tasks[j].name

C28_PackRoundTrip ==
    [][ /\ (call'.pc = "unpacked" /\ call.pc = "packed" /\ call.start[1] = 0) =>
               call'.got = [start |-> call.start, count |-> call.count]
        /\ \A n \in DOMAIN Devices :
              Devices'[n].Targets # Devices[n].Targets =>
                 LET written == Devices'[n].Targets[Len(Devices'[n].Targets)]
                 IN  /\ call.count \in 1..255
                     /\ written = packTarget(call.start, call.count)
                     /\ getTarget(written) = [start |-> call.start, count |-> call.count]
                     /\ Uint64(written) = packTarget64(Uint64(call.start), Uint64(call.count))
      ]_vars

\* C28 witness: a start with all seven low bytes 0xff (2^56 - 1) packed with
\* the count 255 has come back from getTarget.
C28_Witness ==
    /\ call.pc = "unpacked"
    /\ call.start = <<0, 255, 255, 255, 255, 255, 255, 255>>
    /\ call.count = Uint64(255)
    /\ call.got.start = call.start

\* C29: after a successful Setup and through every later call the length of
\* the bitmap is total_extents = floor(devsize / extentsize), which is
\* positive; and a Setup on a device whose size query returns 0 fails.
C29_BitmapLength ==
    /\ ready =>
          /\ extents = getDeviceSize(DevPath) \div ExtentSize
          /\ extents > 0
          /\ extentbits.length = extents
    /\ (ret.op = "Setup" /\ getDeviceSize(ret.name) = 0) => ret.err # "nil" /\ ~ready

\* C30: the table a Reload submits for a Device with Targets t1..tk has k
\* linear targets in Target order; target i starts at logical sector (sum of
\* the counts before i) * sectors_per_extent, right where target i-1 ends,
\* is count_i * sectors_per_extent long, and names the backing device at
\* sector start_i * sectors_per_extent; sectors_per_extent = extentsize / 512.
C30_ReloadTable ==
    \A i \in 1..Len(tasks) :
        tasks[i].kind = "Reload" =>
            LET T     == Devices[tasks[i].name].Targets
                table == tasks[i].table
                spe   == ExtentSize \div 512
            IN  /\ Len(table) = Len(T)
                /\ \A j \in 1..Len(T) :
                      /\ table[j].ttype = "linear"
                      /\ table[j].start = SumCounts(SubSeq(T, 1, j - 1), 1) * spe
                      /\ table[j].size = getTarget(T[j]).count * spe
                      /\ table[j].params = <<DevPath, getTarget(T[j]).start * spe>>
                      /\ j > 1 => table[j].start = table[j - 1].start + table[j - 1].size
                /\ Len(T) > 0 => table[1].start = 0

\* C30 witness: ResizeDevice reloaded a Device with two Targets that are not
\* adjacent on the backing device.
C30_Witness ==
    /\ Returned(ret, "ResizeDevice")
    /\ TaskAt(1, "Reload", ret.name)
    /\ Len(tasks[1].table) = 2
    /\ tasks[1].table[2].start = tasks[1].table[1].size
    /\ tasks[1].table[2].params[2] # tasks[1].table[1].params[2] + tasks[1].table[1].size

\* C31: at every call boundary (after CreateDevice, after a ResizeDevice that
\* returned nil or an error, after Setup with or without a replay) the cached
\* ExtentStart and ExtentCount of every Device are the start and count of its
\* last Target, and both 0 when it has no Targets.
C31_CachedRun ==
    \A n \in DOMAIN Devices :
        IF Devices[n].Targets = <<>>
        THEN Devices[n].ExtentStart = 0 /\ Devices[n].ExtentCount = 0
        ELSE getTarget(Devices[n].Targets[Len(Devices[n].Targets)])
                = [start |-> Devices[n].ExtentStart, count |-> Devices[n].ExtentCount]

\* C31 witness: a Setup replayed a catalogue written after a ResizeDevice
\* that ran out of space having taken extents: the Device has Targets that
\* add up to more than its Extents, and its cache is the last of them.
C31_Witness ==
    /\ ReplayedSetup
    /\ \E n \in DOMAIN Devices :
          /\ Devices[n].Targets # <<>>
          /\ SumCounts(Devices[n].Targets, 1) > Devices[n].Extents
          /\ Devices[n].ExtentCount = getTarget(Devices[n].Targets[Len(Devices[n].Targets)]).count

\* C32: while ResizeDevice calls of requests for different layers interleave
\* between the NextClear and the Set of findExtents, no extent is in Targets
\* of two Devices.
C32_NoSharedExtent ==
    \A n \in DOMAIN Devices, m \in DOMAIN Devices :
        n # m => OwnedExtents(Devices[n]) \cap OwnedExtents(Devices[m]) = {}

\* C33: a DeleteDevice(name) clears no bit of an extent that belongs to a
\* Target of another Device that has not been deleted (its kernel entry
\* exists) when the call is made, whatever calls came before (a DeleteDevice
\* of the same name and allocations to other Devices included).
C33_DeleteSparesOthers ==
    [][ (nops' = nops + 1 /\ ret'.op = "DeleteDevice") =>
            \A m \in DOMAIN Devices \ {ret'.name} :
                kernel[m].exists =>
                    \A e \in OwnedExtents(Devices[m]) :
                        (e + 1) \in extentbits.bits => (e + 1) \in extentbits'.bits
      ]_vars

\* C34: a ResizeDevice that returns the out-of-space error leaves the bitmap
\* and the Device (Targets, Extents, ExtentStart, ExtentCount) as they were
\* before the call.
C34_OutOfSpaceRollsBack ==
    [][ (nops' = nops + 1 /\ ret'.op = "ResizeDevice" /\ ret'.err = "could not resize device") =>
            /\ extentbits' = extentbits
            /\ Devices' = Devices
      ]_vars

\* C35: ResizeDevice terminates: a call that has entered the allocation loop
\* returns; a pass of the loop either takes count >= 1 extents off the
\* remaining need, which stays >= 0, or moves the cursor from a non-zero offset
\* to 0 and changes nothing else; and a pass that finds nothing from offset 0
\* ends the call with the error, so that no second wrap follows a wrap.
C35_Terminates ==
    /\ [][ /\ (call.pc = "find" /\ call'.pc = "loop") =>
                 \/ /\ call'.remains < call.remains
                    /\ call'.remains >= 0
                    /\ call.ncount >= 1
                 \/ /\ call.eoffset # 0
                    /\ call' = [call EXCEPT !.pc = "loop", !.eoffset = 0]
                    /\ extentbits' = extentbits /\ Devices' = Devices
           /\ (call.pc = "find" /\ call'.pc # "find" /\ call.ncount = 0 /\ call.eoffset = 0) =>
                 /\ call' = NoCall
                 /\ ret'.op = "ResizeDevice" /\ ret'.err = "could not resize device"
           /\ (call.pc = "loop" /\ call'.pc = "find") =>
                 /\ call'.eoffset = call.eoffset
                 /\ call'.want >= 1 /\ call'.want <= call.remains
         ]_vars
    /\ (call.pc # "idle") ~> (call.pc = "idle")

\* C35 witness: the cursor of a growing call was wrapped to 0 (the Device has
\* Targets, so the call began past offset 0), and the pass from 0 has found
\* extents.
C35_Witness ==
    /\ call.pc = "find"
    /\ call.eoffset = 0
    /\ call.targets0 # <<>>
    /\ call.ncount > 0

\* C36: with a bitmap of total_extents bits and bit e+1 standing for extent e,
\* bit 0 is never set, no bit past total_extents - 1 is set, the run
\* findExtents is collecting ends at or before extent total_extents - 2
\* (start + count <= total_extents - 1), and at most total_extents - 1 bits
\* are set.
C36_PlusOne ==
    /\ 0 \notin extentbits.bits
    /\ \A i \in extentbits.bits : i <= extents - 1
    /\ Cardinality(extentbits.bits) <= extents - 1
    /\ (call.pc = "find" /\ call.ncount > 0) => call.start + call.count <= extents - 1

\* every set bit of the bitmap stands for an extent of a Target of some
\* Device of the catalogue
AllBitsOwned(bits, devices) ==
    \A i \in bits.bits : \E n \in DOMAIN devices : (i - 1) \in OwnedExtents(devices[n])

\* C37: CreateDevice(name) on a name that is in the catalogue with Targets
\* leaks no extent: when every set bit was covered by a Target before the
\* call, every set bit is covered by a Target of some Device after it.
C37_CreateKeepsOwnership ==
    [][ (/\ nops' = nops + 1 /\ ret'.op = "CreateDevice"
         /\ ret'.name \in DOMAIN Devices
         /\ Devices[ret'.name].Targets # <<>>
         /\ AllBitsOwned(extentbits, Devices))
        => AllBitsOwned(extentbits', Devices')
      ]_vars

\* C38: for every layer, the count d.ctr keeps for its merged path is the
\* number of Gets that returned the merged path and have not been Put, and the
\* overlay is mounted there exactly while that number is positive, whatever
\* ApplyDiff did to the layer's device between a Get and its Put.
C38_PutUndoesGet ==
    \A id \in Names :
        /\ driver.ctr[id] = driver.refs[id]
        /\ driver.merged[id] <=> driver.refs[id] > 0

\* C39: when CreateReadWrite returns an error after its CreateDevice
\* succeeded, that is, when its deferred DeleteDevice has run, DmTool is as it
\* was before the call: the layer has no Device in the catalogue, every bit
\* that is set is of an extent of another layer's Device (the extents
\* allocated for the layer are clear), and the layer has no kernel device.
C39_RollbackRestores ==
    [][ ( /\ driver.reqs[1].op = "CreateReadWrite"
          /\ driver.reqs[1].pc = "DeleteDevice"
          /\ driver'.reqs[1] = NoReq ) =>
            LET id == driver.reqs[1].id
            IN  /\ id \notin DOMAIN Devices'
                /\ AllBitsOwned(extentbits', [n \in DOMAIN Devices' \ {id} |-> Devices'[n]])
                /\ ~kernel'[id].exists
      ]_vars

====
